---- MODULE Spec2Model ----
(***************************************************************************)
(* Model of the cloudfoundry application resource                          *)
(* (cloudfoundry/resource_cf_app.go): create with its background upload    *)
(* goroutine, read with deposed pruning, update with the blue-green        *)
(* rollout.                                                                *)
(*                                                                         *)
(* One resource instance is reconciled on one control thread.  Every       *)
(* remote call is one step whose outcome (success / failure) is chosen     *)
(* nondeterministically.  The upload goroutine of resourceAppCreateCfApp   *)
(* shares the named result `err` with the main flow; its reads and writes  *)
(* of `err` are separate steps, interleaved with the main flow.            *)
(***************************************************************************)
EXTENDS Integers, Sequences, FiniteSets, TLC

\* ---------------------------------------------------------------- bounds
\* application ids the platform hands out: 1..MaxApps
MaxApps == 3
\* largest desired instance count
MaxInstances == 4
\* largest number of service_binding entries
MaxBindings == 1
\* largest number of mappings the platform reports for one route
MaxMappings == 2
\* number of service instances an application may be bound to
MaxServices == 2
\* number of routes an application may be mapped to
MaxRoutes == 2
\* number of attributes one plan changes
MaxChanged == 2

\* ------------------------------------------------------------- constants
\* d.Id() == ""
NoId == 0
\* an application that is not managed by this resource
Foreign == -1
\* the nil error
Nil == "nil"
AppIds == 1..MaxApps
Slots == <<"default_route", "stage_route", "live_route">>
SlotSet == {Slots[i] : i \in 1..Len(Slots)}

\* the nil map[string]interface{}: every lookup misses
NilRouteConfig == [s \in SlotSet |-> ""]
\* a `route` block names, per slot, a route id or nothing
RouteConfigs == [SlotSet -> {"", "r"}]
RouteId(rc, s) == IF rc[s] = "" THEN "" ELSE s
RouteIds == SlotSet

\* The desired configuration is fixed for the whole operation.  The model
\* draws each attribute at the step where the operation first reads it, and
\* keeps it in cfg from then on.

DefaultConfig ==
    [docker |-> FALSE, bindings |-> 0, route |-> NilRouteConfig,
     stopped |-> FALSE, instances |-> 1]

NoApp == [exists |-> FALSE, instances |-> 0, renamed |-> FALSE]
NoState == [id |-> NoId, deposed |-> {}]
\* no standard update is running
NoSU == [mode |-> "none"]
\* no validateRoute call was made
NoVR == [called |-> FALSE]
\* locals of resourceAppBlueGreenUpdate; V (the venerable's instance count
\* when the rollout read it), before (the deposed map the update started
\* with) and waitFailed (a WaitForAppToStart of the scaling loop failed or
\* timed out) are history fields
NoBG == [ven |-> NoId, venInst |-> 0, newInst |-> 0, recorded |-> FALSE,
         V |-> 0, before |-> {}, waitFailed |-> FALSE, iter |-> 0]

VARIABLES
    pc,         \* position of the main flow
    gpc,        \* position of the upload goroutine of resourceAppCreateCfApp
    err,        \* the named result `err` of resourceAppCreateCfApp (shared)
    chanVal,    \* the value the goroutine evaluated for `upload <- err`
    cfg,        \* desired configuration of the running operation
    id,         \* d.Id()
    deposed,    \* d.Get("deposed") at the set level (keys of the map)
    partial,    \* d.Partial mode
    partialMap, \* keys marked with d.SetPartial
    state,      \* persisted resource state handed back by the last operation
    apps,       \* platform: application records by id
    mappings,   \* platform: route mappings of the applications of this resource
    nextId,     \* platform: next application id
    log,        \* remote calls issued by the running operation, in order
    appID,      \* app.ID inside resourceAppCreateCfApp
    instReq,    \* appConfig.app.Instances handed to resourceAppCreateCfApp
    bi,         \* number of service bindings created by addServiceBindings
    stepErrs,   \* history: errors of the failed steps after CreateApp succeeded
    ret,        \* value returned by resourceAppCreateCfApp
    bg,         \* locals of resourceAppBlueGreenUpdate
    readResp,   \* history: ReadApp responses seen by the last deposed pruning
    prunedFrom, \* history: deposed set before the last deposed pruning
    op,         \* running / last operation
    result,     \* error returned by the last operation
    updated,    \* an update was started
    su,         \* locals of resourceAppStandardUpdate or resourceAppDelete
    vr          \* arguments and result of a single validateRoute call

vars == <<pc, gpc, err, chanVal, cfg, id, deposed, partial, partialMap, state,
          apps, mappings, nextId, log, appID, instReq, bi, stepErrs, ret, bg,
          readResp, prunedFrom, op, result, updated, su, vr>>

dvars == <<id, deposed, partial, partialMap>>
remote == <<apps, mappings, nextId>>
gvars == <<gpc, chanVal>>
readvars == <<readResp, prunedFrom>>

\* ------------------------------------------------------------- helpers
Call(c, a, n, ok) == [call |-> c, app |-> a, n |-> n, ok |-> ok]
Issue(c, a, n, ok) == log' = Append(log, Call(c, a, n, ok))

\* the upload goroutine is not running (never started, finished, or blocked
\* for good on its send)
Quiesced == gpc \in {"none", "g_done", "g_send"}

\* helper/schema ResourceData.State(): without an id there is no state; in
\* partial mode only the keys marked with SetPartial are taken from the
\* values set by the operation, every other key keeps the prior state's value
State(i, dep, part, pmap, prior) ==
    IF i = NoId THEN NoState
    ELSE [id |-> i,
          deposed |-> IF part /\ "deposed" \notin pmap THEN prior.deposed ELSE dep]

\* outcomes of a platform call on an application: it may fail at any time
\* and fails when the application does not exist
Outcomes(a) == IF apps[a].exists THEN BOOLEAN ELSE {FALSE}

Init ==
    /\ pc = "idle"
    /\ gpc = "none"
    /\ err = Nil
    /\ chanVal = Nil
    /\ cfg = DefaultConfig
    /\ id = NoId
    /\ deposed = {}
    /\ partial = FALSE
    /\ partialMap = {}
    /\ state = NoState
    /\ apps = [a \in AppIds |-> NoApp]
    /\ mappings = {}
    /\ nextId = 1
    /\ log = <<>>
    /\ appID = NoId
    /\ instReq = 0
    /\ bi = 0
    /\ stepErrs = {}
    /\ ret = Nil
    /\ bg = NoBG
    /\ readResp = [a \in AppIds |-> "none"]
    /\ prunedFrom = {}
    /\ op = "none"
    /\ result = Nil
    /\ updated = FALSE
    /\ su = NoSU
    /\ vr = NoVR

\* ------------------------------------------------ validateRoute (pure)
\* found: the `app` of each mapping ReadRouteMappingsByRoute reports for the
\* route, one element per mapping; readFails: that call failed
ValidateRoute(routeConfig, slot, excludedAppId, found, readFails) ==
    LET routeID == RouteId(routeConfig, slot) IN
    IF routeID = "" THEN [routeID |-> "", err |-> Nil]
    ELSE IF readFails THEN [routeID |-> routeID, err |-> "ErrReadMappings"]
    ELSE IF Len(found) > 0 /\ ~(Len(found) = 1 /\ found[1] = excludedAppId)
         THEN [routeID |-> routeID, err |-> "ErrRouteMapped"]
    ELSE [routeID |-> routeID, err |-> Nil]

\* the elements of a finite set of integers in ascending order
RECURSIVE SeqOf(_)
SeqOf(S) ==
    IF S = {} THEN <<>>
    ELSE LET m == CHOOSE x \in S : \A y \in S : x <= y
         IN <<m>> \o SeqOf(S \ {m})

\* what the platform reports as mapped to the route of a slot; foreignRoutes
\* are the routes some other application is mapped to at that moment
MappedApps(rc, slot, foreignRoutes) ==
    SeqOf({m.app : m \in {x \in mappings : x.route = RouteId(rc, slot)}}
          \cup (IF slot \in foreignRoutes THEN {Foreign} ELSE {}))

\* the outer `hasRouteConfig` of resourceAppCreateCfApp: declared in the var
\* block and never assigned (the `:=` of the if statement declares another)
HasRouteConfigOuter == FALSE

\* appConfig.routeConfig after resourceAppCreateCfApp returned
AppConfigRouteConfig(c) ==
    IF HasRouteConfigOuter THEN c.route ELSE NilRouteConfig

\* --------------------------------------------- resourceAppCreateCfApp
\* entry, used by resourceAppCreate and by resourceAppBlueGreenUpdate
EnterCreateCfApp(instances) ==
    /\ instReq' = instances
    /\ appID' = NoId
    /\ bi' = 0
    /\ stepErrs' = {}
    /\ err' = Nil
    /\ ret' = Nil
    /\ gpc' = "none"
    /\ chanVal' = Nil
    /\ pc' = "c_prepareApp"

\* return before the deferred cleanup is registered
ReturnEarly(e) ==
    /\ ret' = e
    /\ pc' = "c_return"

\* prepareApp: skipped for a docker image
CfApp_PrepareApp ==
    /\ pc = "c_prepareApp"
    /\ \E ok \in BOOLEAN :
         IF cfg.docker \/ ok
         THEN pc' = "c_validate" /\ UNCHANGED ret
         ELSE ReturnEarly("ErrPrepareApp")
    /\ UNCHANGED <<gvars, err, cfg, dvars, state, remote, log, appID, instReq,
                   bi, stepErrs, bg, readvars, op, result, updated, su, vr>>

\* the three validateRoute calls and the stage/live pairing check
CfApp_ValidateRoutes ==
    /\ pc = "c_validate"
    /\ \E rc \in RouteConfigs, foreignRoutes \in SUBSET RouteIds,
          failing \in SUBSET SlotSet :
         /\ cfg' = [cfg EXCEPT !.route = rc]
         /\ LET
             vd == ValidateRoute(rc, "default_route", id,
                       MappedApps(rc, "default_route", foreignRoutes),
                       "default_route" \in failing)
             vs == ValidateRoute(rc, "stage_route", NoId,
                       MappedApps(rc, "stage_route", foreignRoutes),
                       "stage_route" \in failing)
             vl == ValidateRoute(rc, "live_route", id,
                       MappedApps(rc, "live_route", foreignRoutes),
                       "live_route" \in failing)
             e == IF vd.err # Nil THEN vd.err
                  ELSE IF vs.err # Nil THEN vs.err
                  ELSE IF vl.err # Nil THEN vl.err
                  ELSE IF (vs.routeID # "") # (vl.routeID # "") THEN "ErrStageLive"
                  ELSE Nil
            IN IF e # Nil THEN ReturnEarly(e)
               ELSE pc' = "c_createApp" /\ UNCHANGED ret
    /\ UNCHANGED <<gvars, err, dvars, state, remote, log, appID, instReq,
                   bi, stepErrs, bg, readvars, op, result, updated, su, vr>>

CfApp_CreateApp ==
    /\ pc = "c_createApp"
    /\ \E ok \in BOOLEAN :
         IF ok
         THEN /\ appID' = nextId
              /\ nextId' = nextId + 1
              /\ apps' = [apps EXCEPT ![nextId] =
                            [exists |-> TRUE, instances |-> instReq,
                             renamed |-> FALSE]]
              /\ Issue("CreateApp", nextId, instReq, TRUE)
              /\ pc' = "c_prepare"
              /\ UNCHANGED ret
         ELSE /\ Issue("CreateApp", NoId, instReq, FALSE)
              /\ ReturnEarly("ErrCreateApp")
              /\ UNCHANGED <<appID, nextId, apps>>
    /\ UNCHANGED <<gvars, err, cfg, dvars, state, mappings, instReq, bi,
                   stepErrs, bg, readvars, op, result, updated, su, vr>>

\* `err = <-prepare`, then the upload goroutine is started unless the
\* application is a docker image
CfApp_Prepare ==
    /\ pc = "c_prepare"
    /\ \E ok \in BOOLEAN, n \in 0..MaxBindings :
         IF ok
         THEN /\ err' = Nil
              /\ gpc' = IF cfg.docker THEN "none" ELSE "g_upload"
              /\ cfg' = [cfg EXCEPT !.bindings = n]
              /\ pc' = "c_bind"
              /\ UNCHANGED stepErrs
         ELSE /\ err' = "ErrPrepare"
              /\ stepErrs' = stepErrs \cup {"ErrPrepare"}
              /\ pc' = "c_defer"
              /\ UNCHANGED <<gpc, cfg>>
    /\ UNCHANGED <<chanVal, dvars, state, remote, log, appID, instReq, bi,
                   ret, bg, readvars, op, result, updated, su, vr>>

\* addServiceBindings: one CreateServiceBinding per entry, in order; the
\* result is assigned to the named result `err` when the function returns
CfApp_Bind ==
    /\ pc = "c_bind"
    /\ IF cfg.bindings = 0
       THEN /\ pc' = "c_route"
            /\ UNCHANGED <<err, bi, stepErrs, log>>
       ELSE \E ok \in BOOLEAN :
              /\ Issue("CreateServiceBinding", appID, bi + 1, ok)
              /\ IF ok
                 THEN /\ bi' = bi + 1
                      /\ UNCHANGED stepErrs
                      /\ IF bi + 1 = cfg.bindings
                         THEN err' = Nil /\ pc' = "c_bindCheck"
                         ELSE UNCHANGED <<err, pc>>
                 ELSE /\ err' = "ErrBinding"
                      /\ stepErrs' = stepErrs \cup {"ErrBinding"}
                      /\ pc' = "c_bindCheck"
                      /\ UNCHANGED bi
    /\ UNCHANGED <<gvars, cfg, dvars, state, remote, appID, instReq, ret, bg,
                   readvars, op, result, updated, su, vr>>

\* `; err != nil { return err }` after addServiceBindings
CfApp_BindCheck ==
    /\ pc = "c_bindCheck"
    /\ pc' = IF err # Nil THEN "c_defer" ELSE "c_route"
    /\ UNCHANGED <<gvars, err, cfg, dvars, state, remote, log, appID, instReq,
                   bi, stepErrs, ret, bg, readvars, op, result, updated, su, vr>>

\* faulty variant: the conflict shows only when the mapping is created
MapRouteConflictLate(slot, next) ==
    LET routeID == RouteId(cfg.route, slot) IN
    IF routeID = ""
    THEN /\ pc' = next
         /\ UNCHANGED <<err, stepErrs, log, mappings>>
    ELSE \E ok \in BOOLEAN :
           /\ Issue("CreateRouteMapping", appID, 0, ok)
           /\ IF ok
              THEN /\ mappings' = mappings \cup {[route |-> routeID, app |-> appID]}
                   /\ pc' = next
                   /\ UNCHANGED <<err, stepErrs>>
              ELSE /\ err' = "ErrRouteMapped"
                   /\ stepErrs' = stepErrs \cup {"ErrRouteMapped"}
                   /\ pc' = "c_defer"
                   /\ UNCHANGED mappings

\* CreateRouteMapping of one slot's route to the created application; a
\* failure returns the (shadowed) error through the named result
MapRoute(slot, next) ==
    LET routeID == RouteId(cfg.route, slot) IN
    IF routeID = ""
    THEN /\ pc' = next
         /\ UNCHANGED <<err, stepErrs, log, mappings>>
    ELSE \E ok \in BOOLEAN :
           /\ Issue("CreateRouteMapping", appID, 0, ok)
           /\ IF ok
              THEN /\ mappings' = mappings \cup {[route |-> routeID, app |-> appID]}
                   /\ pc' = next
                   /\ UNCHANGED <<err, stepErrs>>
              ELSE /\ err' = "ErrMapping"
                   /\ stepErrs' = stepErrs \cup {"ErrMapping"}
                   /\ pc' = "c_defer"
                   /\ UNCHANGED mappings

\* d.Id() != "": blue-green deployment, only the stage_route is bound
CfApp_RouteStage ==
    /\ pc = "c_route"
    /\ id # NoId
    /\ IF RouteId(cfg.route, "stage_route") = ""
       THEN /\ err' = "ErrNoStageRoute"
            /\ stepErrs' = stepErrs \cup {"ErrNoStageRoute"}
            /\ pc' = "c_defer"
            /\ UNCHANGED <<log, mappings>>
       ELSE MapRoute("stage_route", "c_join")
    /\ UNCHANGED <<gvars, cfg, dvars, state, apps, nextId, appID, instReq, bi,
                   ret, bg, readvars, op, result, updated, su, vr>>

\* d.Id() == "": bind default_route
CfApp_RouteDefault ==
    /\ pc = "c_route"
    /\ id = NoId
    /\ MapRoute("default_route", "c_routeLive")
    /\ UNCHANGED <<gvars, cfg, dvars, state, apps, nextId, appID, instReq, bi,
                   ret, bg, readvars, op, result, updated, su, vr>>

\* d.Id() == "": bind live_route
CfApp_RouteLive ==
    /\ pc = "c_routeLive"
    /\ MapRoute("live_route", "c_join")
    /\ UNCHANGED <<gvars, cfg, dvars, state, apps, nextId, appID, instReq, bi,
                   ret, bg, readvars, op, result, updated, su, vr>>

\* `if err = <-upload; err != nil { return err }`, skipped for a docker image
CfApp_Join ==
    /\ pc = "c_join"
    /\ IF cfg.docker
       THEN /\ pc' = "c_start"
            /\ UNCHANGED <<err, gpc>>
       ELSE /\ gpc = "g_send"
            /\ err' = chanVal
            /\ gpc' = "g_done"
            /\ pc' = IF chanVal # Nil THEN "c_defer" ELSE "c_start"
    /\ UNCHANGED <<chanVal, cfg, dvars, state, remote, log, appID, instReq, bi,
                   stepErrs, ret, bg, readvars, op, result, updated, su, vr>>

\* StartDockerApp / StartApp unless the application is to stay stopped
CfApp_Start ==
    /\ pc = "c_start"
    /\ \E stopped \in BOOLEAN, ok \in BOOLEAN :
         /\ cfg' = [cfg EXCEPT !.stopped = stopped]
         /\ IF stopped
            THEN /\ pc' = "c_readApp"
                 /\ UNCHANGED <<err, stepErrs, log>>
            ELSE /\ Issue(IF cfg.docker THEN "StartDockerApp" ELSE "StartApp",
                          appID, 0, ok)
                 /\ IF ok
                    THEN /\ err' = Nil
                         /\ pc' = "c_readApp"
                         /\ UNCHANGED stepErrs
                    ELSE /\ err' = "ErrStart"
                         /\ stepErrs' = stepErrs \cup {"ErrStart"}
                         /\ pc' = "c_defer"
    /\ UNCHANGED <<gvars, dvars, state, remote, appID, instReq,
                   bi, ret, bg, readvars, op, result, updated, su, vr>>

\* the final ReadApp, then `return err`
CfApp_ReadApp ==
    /\ pc = "c_readApp"
    /\ \E ok \in BOOLEAN :
         /\ Issue("ReadApp", appID, 0, ok)
         /\ IF ok
            THEN err' = Nil /\ UNCHANGED stepErrs
            ELSE err' = "ErrReadApp" /\ stepErrs' = stepErrs \cup {"ErrReadApp"}
    /\ pc' = "c_defer"
    /\ UNCHANGED <<gvars, cfg, dvars, state, remote, appID, instReq, bi, ret,
                   bg, readvars, op, result, updated, su, vr>>

\* error the deferred cleanup leaves in the named result
CleanupErr(e, err2) == IF err2 # Nil THEN err2 ELSE e

\* the deferred function: delete the application if an error occurs
CfApp_Defer ==
    /\ pc = "c_defer"
    /\ IF err = Nil
       THEN UNCHANGED <<err, log, apps, mappings>>
       ELSE \E ok \in BOOLEAN :
              /\ Issue("DeleteApp", appID, 0, ok)
              /\ err' = CleanupErr(err, IF ok THEN Nil ELSE "ErrDeleteApp")
              /\ IF ok
                 THEN /\ apps' = [apps EXCEPT ![appID] = NoApp]
                      /\ mappings' = {m \in mappings : m.app # appID}
                 ELSE UNCHANGED <<apps, mappings>>
    /\ pc' = "c_exit"
    /\ UNCHANGED <<gvars, cfg, dvars, state, nextId, appID, instReq, bi,
                   stepErrs, ret, bg, readvars, op, result, updated, su, vr>>

\* the function returns the value the named result holds
CfApp_Exit ==
    /\ pc = "c_exit"
    /\ ret' = err
    /\ pc' = "c_return"
    /\ UNCHANGED <<gvars, err, cfg, dvars, state, remote, log, appID, instReq,
                   bi, stepErrs, bg, readvars, op, result, updated, su, vr>>

\* ------------------------------------------------ the upload goroutine
\* `err = am.UploadApp(app, appPath, addContent)`
Upload_UploadApp ==
    /\ gpc = "g_upload"
    /\ \E ok \in Outcomes(appID) :
         /\ Issue("UploadApp", appID, 0, ok)
         /\ err' = IF ok THEN Nil ELSE "ErrUpload"
         /\ stepErrs' = IF ok THEN stepErrs ELSE stepErrs \cup {"ErrUpload"}
    /\ gpc' = "g_check"
    /\ UNCHANGED <<pc, chanVal, cfg, dvars, state, remote, appID, instReq, bi,
                   ret, bg, readvars, op, result, updated, su, vr>>

\* `if err != nil`
Upload_Check ==
    /\ gpc = "g_check"
    /\ gpc' = IF err # Nil THEN "g_eval" ELSE "g_remove"
    /\ UNCHANGED <<pc, err, chanVal, cfg, dvars, state, remote, log, appID,
                   instReq, bi, stepErrs, ret, bg, readvars, op, result, updated, su, vr>>

\* `err = os.RemoveAll(appPath)`; nothing is removed, and `err` not written,
\* for a file:// url
Upload_RemoveAll ==
    /\ gpc = "g_remove"
    /\ \E r \in {"file", Nil, "ErrRemoveAll"} :
         /\ err' = IF r = "file" THEN err ELSE r
         /\ stepErrs' = IF r = "ErrRemoveAll"
                        THEN stepErrs \cup {"ErrRemoveAll"} ELSE stepErrs
    /\ gpc' = "g_eval"
    /\ UNCHANGED <<pc, chanVal, cfg, dvars, state, remote, log, appID, instReq,
                   bi, ret, bg, readvars, op, result, updated, su, vr>>

\* `upload <- err`: the operand is evaluated, then the send blocks until the
\* main flow receives
Upload_Send ==
    /\ gpc = "g_eval"
    /\ chanVal' = err
    /\ gpc' = "g_send"
    /\ UNCHANGED <<pc, err, cfg, dvars, state, remote, log, appID, instReq, bi,
                   stepErrs, ret, bg, readvars, op, result, updated, su, vr>>

\* -------------------------------------------------- resourceAppCreate
resourceAppCreate ==
    /\ pc = "idle"
    /\ state.id = NoId
    /\ op = "none"
    /\ \E docker \in BOOLEAN, instances \in 1..MaxInstances :
         /\ cfg' = [DefaultConfig EXCEPT !.docker = docker,
                                         !.instances = instances]
         /\ EnterCreateCfApp(instances)
    /\ id' = NoId
    /\ deposed' = {}
    /\ partial' = FALSE
    /\ partialMap' = {}
    /\ log' = <<>>
    /\ bg' = NoBG
    /\ op' = "create"
    /\ result' = Nil
    /\ UNCHANGED <<state, remote, readvars, updated, su, vr>>

\* back in resourceAppCreate: on success d.SetId and the state is handed back
resourceAppCreate_Return ==
    /\ pc = "c_return"
    /\ op = "create"
    /\ Quiesced
    /\ result' = ret
    /\ id' = IF ret = Nil THEN appID ELSE NoId
    /\ state' = State(id', deposed, partial, partialMap, state)
    /\ pc' = "idle"
    /\ UNCHANGED <<gvars, err, cfg, deposed, partial, partialMap, remote, log,
                   appID, instReq, bi, stepErrs, ret, bg, readvars, op, updated, su, vr>>

\* --------------------------------------------------- resourceAppUpdate
\* the locals of the previous operation are gone; a goroutine blocked on its
\* send stays blocked
ResetLocals ==
    /\ gpc' = IF gpc = "g_send" THEN "g_send" ELSE "none"
    /\ chanVal' = IF gpc = "g_send" THEN chanVal ELSE Nil
    /\ err' = Nil
    /\ appID' = NoId
    /\ instReq' = 0
    /\ bi' = 0
    /\ stepErrs' = {}
    /\ ret' = Nil
    /\ bg' = NoBG
    /\ readResp' = [a \in AppIds |-> "none"]
    /\ prunedFrom' = {}

\* faulty variant: blue_green.enable is not consulted
BlueGreenAlways(enabled, restart, restage, changed) ==
    restart \/ restage \/ changed

\* the blue-green decision of resourceAppUpdate
BlueGreen(enabled, restart, restage, changed) ==
    enabled /\ (restart \/ restage \/ changed)

\* faulty variant: the error is dropped on return
UpdateReturnNil(e, newId, newDeposed, newPartialMap) ==
    /\ result' = Nil
    /\ id' = newId
    /\ deposed' = newDeposed
    /\ partialMap' = newPartialMap
    /\ partial' = FALSE
    /\ state' = State(newId, newDeposed, FALSE, newPartialMap, state)
    /\ pc' = "idle"

\* resourceAppUpdate returns: partial mode is switched off only without an
\* error, and the SDK hands ResourceData.State() back
UpdateReturn(e, newId, newDeposed, newPartialMap) ==
    /\ result' = e
    /\ id' = newId
    /\ deposed' = newDeposed
    /\ partialMap' = newPartialMap
    /\ partial' = IF e = Nil THEN FALSE ELSE partial
    /\ state' = State(newId, newDeposed, partial', newPartialMap, state)
    /\ pc' = "idle"

PushedKeys ==
    {"name", "space", "ports", "instances", "memory", "disk_quota", "command",
     "enable_ssh", "health_check_http_endpoint", "health_check_type",
     "health_check_timeout", "buildpack", "environment", "timeout"}

\* resourceAppUpdate up to the dispatch: the deposed map of the prior state is
\* kept, partial mode is switched on, changed attributes are pushed with
\* UpdateApp (the CCApp built here carries no ID), then the update is
\* dispatched.  update/restart/restage are the change tiers, changed says
\* that service_binding, url, git, github_release or add_content changed.
resourceAppUpdate ==
    /\ pc = "idle"
    /\ state.id # NoId
    /\ ~updated
    /\ updated' = TRUE
    /\ UNCHANGED <<su, vr>>
    /\ \E docker, update, restart, restage, enabled, changed, ok \in BOOLEAN :
         /\ BlueGreen(enabled, restart, restage, changed)
         /\ cfg' = [DefaultConfig EXCEPT !.docker = docker]
         /\ id' = state.id
         /\ deposed' = state.deposed
         /\ partial' = TRUE
         /\ IF update \/ restart \/ restage
            THEN /\ log' = <<Call("UpdateApp", NoId, 0, ok)>>
                 /\ partialMap' = IF ok THEN PushedKeys ELSE {}
                 /\ result' = IF ok THEN Nil ELSE "ErrUpdateApp"
                 /\ pc' = IF ok THEN "bg_read" ELSE "idle"
            ELSE /\ log' = <<>>
                 /\ partialMap' = {}
                 /\ result' = Nil
                 /\ pc' = "bg_read"
         /\ state' = IF pc' = "idle"
                     THEN State(id', deposed', TRUE, partialMap', state)
                     ELSE state
    /\ ResetLocals
    /\ op' = "update"
    /\ UNCHANGED remote

\* ------------------------------------------ resourceAppBlueGreenUpdate
\* am.ReadApp(d.Id())
BlueGreen_ReadApp ==
    /\ pc = "bg_read"
    /\ \E ok \in Outcomes(id) :
         /\ Issue("ReadApp", id, 0, ok)
         /\ IF ok
            THEN /\ bg' = [bg EXCEPT !.ven = id, !.before = deposed]
                 /\ pc' = "bg_rename"
                 /\ UNCHANGED <<dvars, state, result>>
            ELSE /\ UpdateReturn("ErrReadApp", id, deposed, partialMap)
                 /\ UNCHANGED bg
    /\ UNCHANGED <<gvars, err, cfg, remote, appID, instReq, bi, stepErrs, ret,
                   readvars, op, updated, su, vr>>

\* UpdateApp{ID: d.Id(), Name: name + "-venerable"}; the refreshed record
\* gives the venerable's instance count
BlueGreen_Rename ==
    /\ pc = "bg_rename"
    /\ \E ok \in Outcomes(id) :
         /\ Issue("UpdateApp", id, 0, ok)
         /\ IF ok
            THEN /\ apps' = [apps EXCEPT ![id].renamed = TRUE]
                 /\ bg' = [bg EXCEPT !.venInst = apps[id].instances,
                                      !.V = apps[id].instances]
                 /\ pc' = "bg_create"
                 /\ UNCHANGED <<dvars, state, result>>
            ELSE /\ UpdateReturn("ErrRename", id, deposed, partialMap)
                 /\ UNCHANGED <<apps, bg>>
    /\ UNCHANGED <<gvars, err, cfg, mappings, nextId, appID, instReq, bi,
                   stepErrs, ret, readvars, op, updated, su, vr>>

\* resourceAppCreateCfApp with appConfig.app.Instances = 1
BlueGreen_Create ==
    /\ pc = "bg_create"
    /\ EnterCreateCfApp(1)
    /\ UNCHANGED <<cfg, dvars, state, remote, log, bg, readvars, op, result, updated, su, vr>>

\* faulty variant: the venerable application is not recorded
RecordDeposedNot(dep, venerable) == dep

\* the deposed map after the venerable application is recorded in it
RecordDeposed(dep, venerable) == dep \cup {venerable}

\* resourceAppCreateCfApp returned: on an error the rollout returns it, else
\* d.SetId, d.SetPartial and the venerable id is recorded as deposed
BlueGreen_Record ==
    /\ pc = "c_return"
    /\ op = "update"
    /\ Quiesced
    /\ IF ret # Nil
       THEN /\ UpdateReturn(ret, id, deposed, partialMap)
            /\ UNCHANGED <<bg, cfg>>
       ELSE \E instances \in 1..MaxInstances :
              /\ cfg' = [cfg EXCEPT !.instances = instances]
              /\ id' = appID
              /\ partialMap' = partialMap \cup
                     {"url", "git", "github_release", "add_content",
                      "service_binding", "timeout"}
              /\ deposed' = RecordDeposed(deposed, bg.ven)
              /\ bg' = [bg EXCEPT !.recorded = TRUE, !.newInst = 1]
              /\ pc' = "bg_rebindDefault"
              /\ UNCHANGED <<partial, state, result>>
    /\ UNCHANGED <<gvars, err, remote, log, appID, instReq, bi, stepErrs, ret,
                   readvars, op, updated, su, vr>>

\* validateRoute(appConfig.routeConfig, slot, venerableApp.ID, rm), then
\* CreateRouteMapping to the replacement when the slot names a route
Rebind(slot, next) ==
    \E foreignRoutes \in SUBSET {slot}, failing \in SUBSET {slot}, ok \in BOOLEAN :
      LET rc == AppConfigRouteConfig(cfg)
          v == ValidateRoute(rc, slot, bg.ven,
                             MappedApps(rc, slot, foreignRoutes), slot \in failing)
      IN IF v.err # Nil
         THEN /\ UpdateReturn(v.err, id, deposed, partialMap)
              /\ UNCHANGED <<log, mappings>>
         ELSE IF v.routeID = ""
         THEN /\ pc' = next
              /\ partialMap' = IF next = "bg_loop"
                               THEN partialMap \cup {"route"} ELSE partialMap
              /\ UNCHANGED <<id, deposed, partial, state, result, log, mappings>>
         ELSE /\ Issue("CreateRouteMapping", id, 0, ok)
              /\ IF ok
                 THEN /\ mappings' = mappings \cup {[route |-> v.routeID, app |-> id]}
                      /\ pc' = next
                      /\ partialMap' = IF next = "bg_loop"
                                       THEN partialMap \cup {"route"} ELSE partialMap
                      /\ UNCHANGED <<id, deposed, partial, state, result>>
                 ELSE /\ UpdateReturn("ErrMapping", id, deposed, partialMap)
                      /\ UNCHANGED mappings

BlueGreen_RebindDefault ==
    /\ pc = "bg_rebindDefault"
    /\ Rebind("default_route", "bg_rebindLive")
    /\ UNCHANGED <<gvars, err, cfg, apps, nextId, appID, instReq, bi, stepErrs,
                   ret, bg, readvars, op, updated, su, vr>>

BlueGreen_RebindLive ==
    /\ pc = "bg_rebindLive"
    /\ Rebind("live_route", "bg_loop")
    /\ UNCHANGED <<gvars, err, cfg, apps, nextId, appID, instReq, bi, stepErrs,
                   ret, bg, readvars, op, updated, su, vr>>

\* faulty variant: the loop stops as soon as one side is done
ScaleMoreBoth(newInst, desired, venInst) == newInst < desired /\ venInst > 1

\* the condition of the scaling loop
ScaleMore(newInst, desired, venInst) == newInst < desired \/ venInst > 1

\* `for *newAppScale.Instances < *newApp.Instances || *venerableAppScale.Instances > 1`
BlueGreen_Loop ==
    /\ pc = "bg_loop"
    /\ IF ScaleMore(bg.newInst, cfg.instances, bg.venInst)
       THEN /\ pc' = "bg_up"
            /\ bg' = [bg EXCEPT !.iter = bg.iter + 1]
       ELSE /\ pc' = "bg_delete"
            /\ UNCHANGED bg
    /\ UNCHANGED <<gvars, err, cfg, dvars, state, remote, log, appID, instReq,
                   bi, stepErrs, ret, readvars, op, result, updated, su, vr>>

\* faulty variant: the replacement is scaled up two instances at a time
ScaledUpTwice(newInst) == newInst + 2

\* `*newAppScale.Instances++`
ScaledUp(newInst) == newInst + 1

\* scale up new: the counter is incremented, then UpdateApp(newAppScale);
\* unless the replacement is stopped, am.WaitForAppToStart is called and its
\* result is not looked at (waitFailed keeps it as history)
BlueGreen_ScaleUp ==
    /\ pc = "bg_up"
    /\ IF bg.newInst < cfg.instances
       THEN \E ok \in Outcomes(id),
               started \in IF cfg.stopped THEN {TRUE} ELSE BOOLEAN :
              /\ bg' = [bg EXCEPT !.newInst = ScaledUp(bg.newInst),
                                  !.waitFailed = bg.waitFailed
                                                   \/ (ok /\ ~started)]
              /\ Issue("UpdateApp", id, ScaledUp(bg.newInst), ok)
              /\ IF ok
                 THEN /\ apps' = [apps EXCEPT ![id].instances = ScaledUp(bg.newInst)]
                      /\ pc' = "bg_down"
                      /\ UNCHANGED <<dvars, state, result>>
                 ELSE /\ UpdateReturn("ErrScaleUp", id, deposed, partialMap)
                      /\ UNCHANGED apps
       ELSE /\ pc' = "bg_down"
            /\ UNCHANGED <<bg, log, apps, dvars, state, result>>
    /\ UNCHANGED <<gvars, err, cfg, mappings, nextId, appID, instReq, bi,
                   stepErrs, ret, readvars, op, updated, su, vr>>

\* faulty variant: the counter of the venerable is not decremented
ScaledDownNot(venInst) == venInst

\* `*venerableAppScale.Instances--`
ScaledDown(venInst) == venInst - 1

\* scale down old: the counter is decremented, then UpdateApp(venerableAppScale)
BlueGreen_ScaleDown ==
    /\ pc = "bg_down"
    /\ IF bg.venInst > 1
       THEN \E ok \in Outcomes(bg.ven) :
              /\ bg' = [bg EXCEPT !.venInst = ScaledDown(bg.venInst)]
              /\ Issue("UpdateApp", bg.ven, ScaledDown(bg.venInst), ok)
              /\ IF ok
                 THEN /\ apps' = [apps EXCEPT ![bg.ven].instances =
                                                     ScaledDown(bg.venInst)]
                      /\ pc' = "bg_loop"
                      /\ UNCHANGED <<dvars, state, result>>
                 ELSE /\ UpdateReturn("ErrScaleDown", id, deposed, partialMap)
                      /\ UNCHANGED apps
       ELSE /\ pc' = "bg_loop"
            /\ UNCHANGED <<bg, log, apps, dvars, state, result>>
    /\ UNCHANGED <<gvars, err, cfg, mappings, nextId, appID, instReq, bi,
                   stepErrs, ret, readvars, op, updated, su, vr>>

\* the deposed map after the venerable application was deleted
ForgetDeposed(dep, venerable) == dep \ {venerable}

\* now delete the old application
BlueGreen_Delete ==
    /\ pc = "bg_delete"
    /\ \E ok \in Outcomes(bg.ven) :
         /\ Issue("DeleteApp", bg.ven, 0, ok)
         /\ IF ok
            THEN /\ apps' = [apps EXCEPT ![bg.ven] = NoApp]
                 /\ mappings' = {m \in mappings : m.app # bg.ven}
                 /\ UpdateReturn(Nil, id, ForgetDeposed(deposed, bg.ven), partialMap)
            ELSE /\ UpdateReturn("ErrDeleteVenerable", id, deposed, partialMap)
                 /\ UNCHANGED <<apps, mappings>>
    /\ UNCHANGED <<gvars, err, cfg, nextId, appID, instReq, bi, stepErrs, ret,
                   bg, readvars, op, updated, su, vr>>

\* ----------------------------------------------------- resourceAppRead
\* what ReadApp answers for an application id
Responses(a) == IF apps[a].exists THEN {"ok", "err"} ELSE {"404", "err"}

\* faulty variant: the loop stops after the first entry it deletes
PruneOne(dep, resp) ==
    LET gone == {r \in dep : resp[r] \in {"ok", "404"}}
    IN IF gone = {} THEN dep
       ELSE dep \ {CHOOSE r \in gone : \A q \in gone : r <= q}

\* the loop over the deposed map: an entry is deleted when ReadApp fails with
\* a 404, and also when ReadApp succeeds
Prune(dep, resp) ==
    {r \in dep :
        IF resp[r] # "ok"
        THEN (IF resp[r] = "404" THEN FALSE ELSE TRUE)
        ELSE FALSE}

resourceAppRead ==
    /\ pc = "idle"
    /\ state.id # NoId
    /\ id' = state.id
    /\ deposed' = state.deposed
    /\ partial' = FALSE
    /\ partialMap' = {}
    /\ cfg' = DefaultConfig
    /\ log' = <<>>
    /\ op' = "read"
    /\ result' = Nil
    /\ pc' = "r_readApp"
    /\ ResetLocals
    /\ UNCHANGED <<state, remote, updated, su, vr>>

\* am.ReadApp(appID): a 404 clears the id, another error is kept in err; on
\* success the route mappings are refreshed, and a failure of
\* ReadRouteMappingsByApp returns at once
Read_ReadApp ==
    /\ pc = "r_readApp"
    /\ \E r \in Responses(id), refresh \in {"none", "ok", "fail"} :
         /\ Issue("ReadApp", id, 0, r = "ok")
         /\ IF r = "ok" /\ refresh = "fail"
            THEN /\ result' = "ErrReadMappings"
                 /\ pc' = "idle"
                 /\ UNCHANGED <<id, err>>
            ELSE /\ id' = IF r = "404" THEN NoId ELSE id
                 /\ err' = IF r = "err" THEN "ErrReadApp" ELSE Nil
                 /\ pc' = "r_prune"
                 /\ UNCHANGED result
    /\ UNCHANGED <<gvars, cfg, deposed, partial, partialMap, state, remote,
                   appID, instReq, bi, stepErrs, ret, bg, readvars, op, updated, su, vr>>

\* check if any old deposed resources still exist, then return; the state
\* is handed back unless an error is returned
Read_Prune ==
    /\ pc = "r_prune"
    /\ \E resp \in [AppIds -> {"none", "ok", "404", "err"}] :
         /\ \A a \in AppIds :
              resp[a] \in (IF a \in deposed THEN Responses(a) ELSE {"none"})
         /\ readResp' = resp
         /\ prunedFrom' = deposed
         /\ deposed' = IF deposed = {} THEN deposed ELSE Prune(deposed, resp)
    /\ result' = err
    /\ state' = IF err = Nil
                THEN State(id, deposed', partial, partialMap, state)
                ELSE state
    /\ pc' = "idle"
    /\ UNCHANGED <<gvars, err, cfg, id, partial, partialMap, remote, log,
                   appID, instReq, bi, stepErrs, ret, bg, op, updated, su, vr>>

ReadNext == resourceAppRead \/ Read_ReadApp \/ Read_Prune

BlueGreenNext ==
    \/ BlueGreen_ReadApp \/ BlueGreen_Rename \/ BlueGreen_Create
    \/ BlueGreen_Record \/ BlueGreen_RebindDefault \/ BlueGreen_RebindLive
    \/ BlueGreen_Loop \/ BlueGreen_ScaleUp \/ BlueGreen_ScaleDown
    \/ BlueGreen_Delete

CreateNext ==
    \/ CfApp_PrepareApp \/ CfApp_ValidateRoutes \/ CfApp_CreateApp
    \/ CfApp_Prepare \/ CfApp_Bind \/ CfApp_BindCheck
    \/ CfApp_RouteStage \/ CfApp_RouteDefault \/ CfApp_RouteLive
    \/ CfApp_Join \/ CfApp_Start \/ CfApp_ReadApp \/ CfApp_Defer \/ CfApp_Exit
    \/ Upload_UploadApp \/ Upload_Check \/ Upload_RemoveAll \/ Upload_Send

Next ==
    \/ resourceAppCreate \/ resourceAppCreate_Return
    \/ CreateNext
    \/ resourceAppUpdate
    \/ BlueGreenNext
    \/ ReadNext

Spec == Init /\ [][Next]_vars

\* Read over every persisted state it can be handed: the resource has an
\* id, its deposed map names any other application ids, and each
\* application exists upstream or not
ExistingApp == [exists |-> TRUE, instances |-> 1, renamed |-> FALSE]

InitRead ==
    /\ pc = "idle"
    /\ gpc = "none"
    /\ err = Nil
    /\ chanVal = Nil
    /\ cfg = DefaultConfig
    /\ id = 1
    /\ deposed = {}
    /\ partial = FALSE
    /\ partialMap = {}
    /\ state \in {[id |-> 1, deposed |-> D] : D \in SUBSET (AppIds \ {1})}
    /\ apps \in [AppIds -> {NoApp, ExistingApp}]
    /\ mappings = {}
    /\ nextId = MaxApps + 1
    /\ log = <<>>
    /\ appID = NoId
    /\ instReq = 0
    /\ bi = 0
    /\ stepErrs = {}
    /\ ret = Nil
    /\ bg = NoBG
    /\ readResp = [a \in AppIds |-> "none"]
    /\ prunedFrom = {}
    /\ op = "none"
    /\ result = Nil
    /\ updated = FALSE
    /\ su = NoSU
    /\ vr = NoVR

SpecRead == InitRead /\ [][ReadNext]_vars

\* ------------------------------------------ validateRoute on its own
\* what ReadRouteMappingsByRoute may report: up to MaxMappings mappings, each
\* to an application of this resource or to a foreign one
MappingLists ==
    UNION {[1..n -> AppIds \cup {Foreign}] : n \in 0..MaxMappings}

InitValidate ==
    /\ pc = "idle" /\ gpc = "none" /\ err = Nil /\ chanVal = Nil
    /\ cfg = DefaultConfig /\ id = NoId /\ deposed = {} /\ partial = FALSE
    /\ partialMap = {} /\ state = NoState
    /\ apps = [a \in AppIds |-> NoApp] /\ mappings = {} /\ nextId = 1
    /\ log = <<>> /\ appID = NoId /\ instReq = 0 /\ bi = 0 /\ stepErrs = {}
    /\ ret = Nil /\ bg = NoBG /\ readResp = [a \in AppIds |-> "none"]
    /\ prunedFrom = {} /\ op = "none" /\ result = Nil /\ updated = FALSE
    /\ su = NoSU
    /\ vr \in [called : {FALSE}, routeConfig : RouteConfigs, route : SlotSet,
               appID : AppIds \cup {NoId}, found : MappingLists,
               readFails : BOOLEAN, out : {[routeID |-> "", err |-> Nil]}]

\* validateRoute(routeConfig, route, appID, rm)
validateRoute ==
    /\ ~vr.called
    /\ vr' = [vr EXCEPT !.called = TRUE,
                        !.out = ValidateRoute(vr.routeConfig, vr.route,
                                              vr.appID, vr.found, vr.readFails)]
    /\ UNCHANGED <<pc, gpc, err, chanVal, cfg, id, deposed, partial, partialMap,
                   state, apps, mappings, nextId, log, appID, instReq, bi,
                   stepErrs, ret, bg, readResp, prunedFrom, op, result,
                   updated, su>>

SpecValidate == InitValidate /\ [][validateRoute]_vars

\* ------------------------------------------- resourceAppStandardUpdate
\* variables a standard update leaves alone
stdfixed == <<gpc, err, chanVal, cfg, id, deposed, state, apps, mappings,
              nextId, appID, instReq, bi, stepErrs, ret, bg, readResp,
              prunedFrom, op, updated, vr>>

Services == 1..MaxServices

\* sequences without repetition over a set
DistinctSeqs(S) ==
    {q \in UNION {[1..n -> S] : n \in 0..Cardinality(S)} :
        \A i, j \in DOMAIN q : i # j => q[i] # q[j]}

\* the service_binding list of the prior state: one entry per service
\* instance, with the binding id the platform gave it (here the number of the
\* service instance), or with an empty binding id (0)
OldBindingLists ==
    {[i \in DOMAIN q |-> [si |-> q[i], bid |-> IF i \in E THEN 0 ELSE q[i]]] :
        q \in DistinctSeqs(Services), E \in SUBSET Services}

\* the binding id the state holds for a service instance ("" when none)
BidOf(list, si) ==
    IF \E i \in DOMAIN list : list[i].si = si
    THEN list[CHOOSE i \in DOMAIN list : list[i].si = si].bid
    ELSE 0

\* the service_binding list of the new configuration: entries that were in
\* the prior state keep their computed binding id
NewBindingList(q, old) == [i \in DOMAIN q |-> [si |-> q[i], bid |-> BidOf(old, q[i])]]

\* the service instances of a list of entries
SIs(list) == {list[i].si : i \in DOMAIN list}

\* getListChangedSchemaLists: list difference on service_instance identity
IsRemoved(b, new) == b.si \notin SIs(new)
ListRemoved(old, new) == SelectSeq(old, LAMBDA b : IsRemoved(b, new))
ListAdded(old, new) == SelectSeq(new, LAMBDA b : b.si \notin SIs(old))

\* the binding id the platform returns for a new binding
FreshBid(si) == MaxServices + si

\* the bindings that exist upstream when the prior state is accurate
Upstream(old) == {old[i] : i \in {j \in DOMAIN old : old[j].bid # 0}}

\* the value ResourceData.State() gives an attribute: in partial mode a key
\* that was not marked with d.SetPartial keeps the value of the prior state
StateAttr(key, setVal, priorVal, part, pmap) ==
    IF part /\ key \notin pmap THEN priorVal ELSE setVal

\* the attribute group whose change the update has to reconcile (one per
\* update): the bindings, the legacy `route` block, `route` replaced by
\* `routes`, or the `routes` set
Changes == {"none", "service_binding", "route", "migrate", "routes"}

\* no call of updateAppRouteMappings was made yet
NoSlot == [slot |-> 0]

\* a standard update that has not looked at anything yet
StartSU ==
    [mode |-> "std", update |-> FALSE, restart |-> FALSE, restage |-> FALSE,
     old |-> <<>>, new |-> <<>>, toDelete |-> <<>>, toAdd |-> <<>>, k |-> 0,
     added |-> <<>>, addErr |-> Nil, setBindings |-> <<>>, upstream |-> {},
     removeDone |-> FALSE, addDone |-> FALSE, changed |-> "none",
     os |-> {}, ns |-> {}, updatedRoutes |-> {}, setRoutes |-> {},
     maps |-> {}, todo |-> <<>>, binaryUpdated |-> FALSE,
     appState |-> "", packageState |-> "", stopped |-> FALSE, pass |-> 1,
     mark |-> 0,
     slot |-> 0, cur |-> NoSlot, setRoute |-> <<>>, oldRC |-> <<>>,
     data |-> <<>>, routesList |-> {}]

\* resourceAppStandardUpdate returns e; on success partial mode is left
StdReturn(e) ==
    /\ result' = e
    /\ partial' = IF e = Nil THEN FALSE ELSE partial
    /\ pc' = "idle"

\* faulty variant: the value of the configuration is left in place
PreserveDeposedNot(existingDeposed, configured) == configured

\* lines 765-766: `existingDeposed, _ := d.GetChange("deposed")`, then
\* d.Set("deposed", existingDeposed)
PreserveDeposed(existingDeposed, configured) == existingDeposed

\* resourceAppUpdate up to the dispatch, when the change is not rolled out
\* blue-green: the deposed map of the prior state is kept, partial mode, the
\* push of line 811, then resourceAppStandardUpdate
resourceAppUpdate_Standard ==
    /\ pc = "idle"
    /\ id # NoId
    /\ su.mode = "none"
    /\ \E update, restart, restage, ok \in BOOLEAN, changed \in Changes :
         /\ su' = [StartSU EXCEPT !.update = update, !.restart = restart,
                                  !.restage = restage, !.changed = changed]
         /\ partial' = TRUE
         /\ IF update \/ restart \/ restage
            THEN /\ log' = <<Call("UpdateApp", NoId, 0, ok)>>
                 /\ partialMap' = IF ok THEN PushedKeys ELSE {}
                 /\ result' = IF ok THEN Nil ELSE "ErrUpdateApp"
                 /\ pc' = IF ok THEN "s_push" ELSE "idle"
            ELSE /\ log' = <<>>
                 /\ partialMap' = {}
                 /\ result' = Nil
                 /\ pc' = "s_push"
    /\ deposed' = PreserveDeposed(state.deposed, deposed)
    /\ UNCHANGED <<gpc, err, chanVal, cfg, id, state, apps, mappings, nextId,
                   appID, instReq, bi, stepErrs, ret, bg, readResp,
                   prunedFrom, op, updated, vr>>

\* `app.ID = d.Id()`, then am.UpdateApp(app) when update || restart || restage
Std_Push ==
    /\ pc = "s_push"
    /\ IF su.update \/ su.restart \/ su.restage
       THEN \E ok \in Outcomes(id) :
              /\ Issue("UpdateApp", id, 0, ok)
              /\ IF ok
                 THEN pc' = "s_bind" /\ UNCHANGED <<result, partial>>
                 ELSE StdReturn("ErrUpdateApp")
       ELSE pc' = "s_bind" /\ UNCHANGED <<log, result, partial>>
    /\ UNCHANGED <<stdfixed, partialMap, su>>

\* `if d.HasChange("service_binding")`: old and new lists, and what
\* getListChangedSchemaLists makes of them
Std_BindingChange ==
    /\ pc = "s_bind"
    /\ IF su.changed = "service_binding"
       THEN \E old \in OldBindingLists, q \in DistinctSeqs(Services) :
              LET new == NewBindingList(q, old)
              IN /\ [i \in DOMAIN old |-> old[i].si] # q
                 /\ su' = [su EXCEPT !.old = old, !.new = new,
                                     !.toDelete = ListRemoved(old, new),
                                     !.toAdd = ListAdded(old, new),
                                     !.setBindings = new,
                                     !.upstream = Upstream(old), !.k = 1]
                 /\ pc' = "s_remove"
       ELSE /\ pc' = "s_route"
            /\ UNCHANGED su
    /\ UNCHANGED <<stdfixed, log, result, partial, partialMap>>

\* faulty variant: an entry without a binding id ends the loop
RemoveEntryStops(b) == IF b.bid # 0 THEN "delete" ELSE "return"

\* removeServiceBindings, what the loop does with one entry
RemoveEntry(b) == IF b.bid # 0 THEN "delete" ELSE "skip"

\* removeServiceBindings: one entry of the loop, or the return after it
Std_RemoveBinding ==
    /\ pc = "s_remove"
    /\ IF su.k > Len(su.toDelete) \/ RemoveEntry(su.toDelete[su.k]) = "return"
       THEN /\ su' = [su EXCEPT !.k = 1, !.removeDone = TRUE]
            /\ pc' = "s_add"
            /\ UNCHANGED <<log, result, partial>>
       ELSE LET b == su.toDelete[su.k]
            IN IF RemoveEntry(b) = "delete"
               THEN \E ok \in BOOLEAN :
                      /\ Issue("DeleteServiceBinding", id, b.bid, ok)
                      /\ IF ok
                         THEN /\ su' = [su EXCEPT !.k = su.k + 1,
                                          !.upstream = su.upstream \ {b}]
                              /\ pc' = "s_remove"
                              /\ UNCHANGED <<result, partial>>
                         ELSE /\ StdReturn("ErrDeleteBinding")
                              /\ UNCHANGED su
               ELSE /\ su' = [su EXCEPT !.k = su.k + 1]
                    /\ pc' = "s_remove"
                    /\ UNCHANGED <<log, result, partial>>
    /\ UNCHANGED <<stdfixed, partialMap>>

\* faulty variant: the bindings made so far are dropped on an error
AddReturnNone(bindings, e) == [bindings |-> <<>>, err |-> e]

\* addServiceBindings, what it returns
AddReturn(bindings, e) == [bindings |-> bindings, err |-> e]

\* addServiceBindings: one entry of the loop (CreateServiceBinding, then the
\* entry is stamped and appended), or the return after the loop
Std_AddBinding ==
    /\ pc = "s_add"
    /\ IF su.k > Len(su.toAdd)
       THEN /\ su' = [su EXCEPT !.addDone = TRUE,
                                !.added = AddReturn(su.added, Nil).bindings,
                                !.addErr = AddReturn(su.added, Nil).err]
            /\ pc' = "s_bound"
            /\ UNCHANGED log
       ELSE LET b == su.toAdd[su.k]
            IN \E ok \in Outcomes(id) :
                 /\ Issue("CreateServiceBinding", id, b.si, ok)
                 /\ IF ok
                    THEN LET bb == [si |-> b.si, bid |-> FreshBid(b.si)]
                         IN /\ su' = [su EXCEPT !.k = su.k + 1,
                                        !.added = Append(su.added, bb),
                                        !.upstream = su.upstream \cup {bb}]
                            /\ pc' = "s_add"
                    ELSE /\ su' = [su EXCEPT !.addDone = TRUE,
                               !.added = AddReturn(su.added, "ErrBinding").bindings,
                               !.addErr = AddReturn(su.added, "ErrBinding").err]
                         /\ pc' = "s_bound"
    /\ UNCHANGED <<stdfixed, result, partial, partialMap>>

\* the new list with the binding ids of the added entries written into it
Stamp(new, added) ==
    [i \in DOMAIN new |->
        IF new[i].si \in SIs(added)
        THEN [si |-> new[i].si, bid |-> BidOf(added, new[i].si)]
        ELSE new[i]]

\* lines 1023-1043: an error of addServiceBindings is returned as it is;
\* else the added binding ids are written to the new list, d.Set and
\* d.SetPartial("service_binding"), restage = true
Std_Bound ==
    /\ pc = "s_bound"
    /\ IF su.addErr # Nil
       THEN /\ StdReturn(su.addErr)
            /\ UNCHANGED <<su, partialMap>>
       ELSE /\ su' = [su EXCEPT !.restage = TRUE,
                        !.setBindings = IF Len(su.added) > 0
                                        THEN Stamp(su.new, su.added)
                                        ELSE su.setBindings]
            /\ partialMap' = partialMap \cup {"service_binding"}
            /\ pc' = "s_route"
            /\ UNCHANGED <<result, partial>>
    /\ UNCHANGED <<stdfixed, log>>

\* ------------------------------------------------ the `routes` attribute
Routes == 1..MaxRoutes

\* an element of the `routes` set: route, mapping_id ("" is 0) and port
\* ("none" while the computed port is not known)
RouteEntry(r, mid, port) == [route |-> r, mid |-> mid, port |-> port]

\* hashRouteMappingSet: an element is identified by its route
RouteKey(e) == e.route
Keys(S) == {RouteKey(e) : e \in S}

\* schema.Set Add and Remove: one element per hash
SetAdd(S, e) == {x \in S : RouteKey(x) # RouteKey(e)} \cup {e}
SetRemove(S, e) == {x \in S : RouteKey(x) # RouteKey(e)}

\* ns.Difference(os): the elements of ns whose hash is not in os
SetDifference(ns, os) == {x \in ns : RouteKey(x) \notin Keys(os)}

\* the mapping id the platform gave the mapping of a route that the prior
\* state records, and the one it returns for a mapping made by this update
OldMid(r) == r
FreshMid(r) == MaxRoutes + r

\* the `routes` sets a prior state can hold: an element that was never
\* mapped (the create operation does not map `routes`) has no mapping id, an
\* element whose port could not be read back has no port
ObservedEntries ==
    {RouteEntry(r, 0, "none") : r \in Routes}
      \cup {RouteEntry(r, OldMid(r), p) : r \in Routes, p \in {"none", "read"}}
ObservedSets ==
    {S \in SUBSET ObservedEntries :
        \A x, y \in S : RouteKey(x) = RouteKey(y) => x = y}

\* the element of a set with a given route
EntryOf(S, r) == CHOOSE x \in S : RouteKey(x) = r

\* the new value of `routes` as the diff gives it: the configured routes,
\* computed fields taken from the prior state where the element is kept
Planned(os, R) ==
    {IF r \in Keys(os) THEN EntryOf(os, r) ELSE RouteEntry(r, 0, "none") :
        r \in R}

\* the mapping ids a set of elements carries
Mids(S) == {x.mid : x \in {y \in S : y.mid # 0}}

\* a call to the route manager with the outcome of the platform: "ok", "404"
\* or another error
CallCode(c, a, n, code) ==
    [call |-> c, app |-> a, n |-> n, ok |-> (code = "ok"), code |-> code]

\* validateRoute as the `routes` code calls it (app.ID, routeID, rm): the
\* route must not be mapped to another application
ValidateRouteOfSet(mappedElsewhere) ==
    IF mappedElsewhere THEN "ErrRouteMapped" ELSE Nil

\* the route a slot names ("" is 0); the schema marks stage_route and
\* live_route as removed, so only a state written by an older version holds
\* them and no configuration does
SlotRoutes == 0..MaxRoutes
NewSlotRoutes(slot) == IF Slots[slot] = "default_route" THEN SlotRoutes ELSE {0}

\* the <slot>_mapping_id a prior state holds next to a route
OldSlotMids(r) == IF r = 0 THEN {0} ELSE {0, OldMid(r)}

\* the `route` block of the prior state: per slot a route and its mapping id
OldRouteConfigs ==
    {rc \in [1..Len(Slots) -> [route : SlotRoutes, mid : 0..MaxRoutes]] :
        \A s \in DOMAIN rc : rc[s].mid \in OldSlotMids(rc[s].route)}

\* `if d.HasChange("route")` ... `else if d.HasChange("routes")`
Std_RouteChange ==
    /\ pc = "s_route"
    /\ IF su.changed = "routes"
       THEN \E os \in ObservedSets, R \in SUBSET Routes :
              /\ Keys(os) # R
              /\ su' = [su EXCEPT !.os = os, !.ns = Planned(os, R),
                                  !.updatedRoutes = os,
                                  !.setRoutes = Planned(os, R),
                                  !.maps = Mids(os),
                                  !.todo = SeqOf(Keys(SetDifference(Planned(os, R), os)))]
              /\ pc' = "s_rsAdd"
       ELSE IF su.changed = "route"
       THEN /\ su' = [su EXCEPT !.slot = 1]
            /\ pc' = "s_legacy"
       ELSE IF su.changed = "migrate"
       THEN \E rc \in OldRouteConfigs, R \in SUBSET Routes :
              /\ R # {}
              /\ su' = [su EXCEPT !.oldRC = rc, !.ns = Planned({}, R),
                                  !.setRoutes = Planned({}, R),
                                  !.maps = {rc[s].mid : s \in DOMAIN rc} \ {0},
                                  !.todo = SeqOf(R)]
              /\ pc' = "s_mig"
       ELSE /\ pc' = "s_binary"
            /\ UNCHANGED su
    /\ UNCHANGED <<stdfixed, log, result, partial, partialMap>>

\* lines 1171-1173: the element of a mapping that was just created
CreatedEntry(r, mid) == RouteEntry(r, mid, "none")

\* lines 1159-1174: one route to add (validateRoute, rm.CreateRouteMapping,
\* updatedRoutes.Add, d.Set), or the end of the loop
Std_SetAdd ==
    /\ pc = "s_rsAdd"
    /\ IF su.todo = <<>>
       THEN /\ su' = [su EXCEPT !.todo =
                        SeqOf(Keys(SetDifference(su.updatedRoutes, su.ns)))]
            /\ pc' = "s_rsDel"
            /\ UNCHANGED <<log, result, partial>>
       ELSE LET r == Head(su.todo)
            IN \E elsewhere, ok \in BOOLEAN :
                 IF ValidateRouteOfSet(elsewhere) # Nil
                 THEN /\ StdReturn(ValidateRouteOfSet(elsewhere))
                      /\ UNCHANGED <<log, su>>
                 ELSE /\ Issue("CreateRouteMapping", id, r, ok)
                      /\ IF ok
                         THEN LET ur == SetAdd(su.updatedRoutes,
                                               CreatedEntry(r, FreshMid(r)))
                              IN /\ su' = [su EXCEPT !.updatedRoutes = ur,
                                             !.setRoutes = ur,
                                             !.maps = su.maps \cup {FreshMid(r)}]
                                 /\ pc' = "s_rsPort"
                                 /\ UNCHANGED <<result, partial>>
                         ELSE /\ StdReturn("ErrMapping")
                              /\ UNCHANGED su
    /\ UNCHANGED <<stdfixed, partialMap>>

\* lines 1176-1184: the port of the new mapping is read back and the element
\* is replaced by one that carries it
Std_SetPort ==
    /\ pc = "s_rsPort"
    /\ LET r == Head(su.todo)
           data == EntryOf(su.updatedRoutes, r)
       IN \E ok \in BOOLEAN :
            /\ Issue("ReadRouteMapping", id, data.mid, ok)
            /\ IF ok
               THEN LET ur == SetAdd(SetRemove(su.updatedRoutes, data),
                                     RouteEntry(r, data.mid, "read"))
                    IN /\ su' = [su EXCEPT !.updatedRoutes = ur,
                                   !.setRoutes = ur, !.todo = Tail(su.todo)]
                       /\ pc' = "s_rsAdd"
                       /\ UNCHANGED <<result, partial>>
               ELSE /\ StdReturn("ErrReadMapping")
                    /\ UNCHANGED su
    /\ UNCHANGED <<stdfixed, partialMap>>

\* faulty variant: every answer but success is an error
DeleteFailedStrict(code) == code # "ok"

\* what a DeleteRouteMapping outcome means to the caller: a 404 is no error
DeleteFailed(code) == code \notin {"ok", "404"}

\* lines 1187-1206: one element to remove (rm.DeleteRouteMapping when it has
\* a mapping id, updatedRoutes.Remove, d.Set), or the end of the loop and
\* d.SetPartial("routes")
Std_SetDelete ==
    /\ pc = "s_rsDel"
    /\ IF su.todo = <<>>
       THEN /\ partialMap' = partialMap \cup {"routes"}
            /\ pc' = "s_binary"
            /\ UNCHANGED <<log, result, partial, su>>
       ELSE LET data == EntryOf(su.updatedRoutes, Head(su.todo))
            IN /\ UNCHANGED partialMap
               /\ IF data.mid # 0
                  THEN \E code \in {"ok", "404", "error"} :
                         /\ log' = Append(log, CallCode("DeleteRouteMapping",
                                                        id, data.mid, code))
                         /\ IF DeleteFailed(code)
                            THEN /\ StdReturn("ErrUnmapping")
                                 /\ UNCHANGED su
                            ELSE LET ur == SetRemove(su.updatedRoutes, data)
                                 IN /\ su' = [su EXCEPT !.updatedRoutes = ur,
                                                !.setRoutes = ur,
                                                !.maps = su.maps \ {data.mid},
                                                !.todo = Tail(su.todo)]
                                    /\ pc' = "s_rsDel"
                                    /\ UNCHANGED <<result, partial>>
                  ELSE /\ su' = [su EXCEPT !.todo = Tail(su.todo)]
                       /\ pc' = "s_rsDel"
                       /\ UNCHANGED <<log, result, partial>>
    /\ UNCHANGED stdfixed

\* -------------------------------------------- the legacy `route` block
\* validateRouteLegacy(newRouteConfig, r, rm): the route a slot names must
\* not be mapped to another application
ValidateRouteLegacy(newId, mappedElsewhere) ==
    IF newId # 0 /\ mappedElsewhere THEN "ErrRouteMapped" ELSE Nil

\* faulty variant: the old mapping is only deleted when a new one is made
SlotStepsNested(oldId, newId) ==
    IF oldId = newId \/ newId = 0 THEN <<>>
    ELSE <<"create">> \o (IF oldId # 0 THEN <<"delete">> ELSE <<>>)

\* updateAppRouteMappings, the calls it sets out to make for one slot
SlotSteps(oldId, newId) ==
    IF oldId = newId THEN <<>>
    ELSE (IF newId # 0 THEN <<"create">> ELSE <<>>)
           \o (IF oldId # 0 THEN <<"delete">> ELSE <<>>)

\* lines 1069-1083: the next slot (validateRouteLegacy, then the entry of
\* updateAppRouteMappings), or after the last slot d.Set and
\* d.SetPartial("route")
Std_LegacySlot ==
    /\ pc = "s_legacy"
    /\ IF su.slot > Len(Slots)
       THEN /\ partialMap' = partialMap \cup {"route"}
            /\ pc' = "s_binary"
            /\ UNCHANGED <<su, result, partial>>
       ELSE \E oldId \in SlotRoutes, newId \in NewSlotRoutes(su.slot),
               elsewhere \in BOOLEAN :
              \E oldMid \in OldSlotMids(oldId) :
                 /\ newId = 0 => ~elsewhere
                 /\ UNCHANGED partialMap
                 /\ IF ValidateRouteLegacy(newId, elsewhere) # Nil
                    THEN /\ StdReturn(ValidateRouteLegacy(newId, elsewhere))
                         /\ UNCHANGED su
                    ELSE /\ su' = [su EXCEPT !.cur =
                                     [slot |-> su.slot, oldId |-> oldId,
                                      oldMid |-> oldMid, newId |-> newId,
                                      steps |-> SlotSteps(oldId, newId),
                                      calls |-> <<>>, mappingID |-> 0,
                                      err |-> Nil, done |-> FALSE]]
                         /\ pc' = "s_slot"
                         /\ UNCHANGED <<result, partial>>
    /\ UNCHANGED <<stdfixed, log>>

\* updateAppRouteMappings: its next call (rm.CreateRouteMapping for the new
\* route, rm.DeleteRouteMapping for the old mapping), or its return and
\* lines 1078-1081 of the caller
Std_SlotStep ==
    /\ pc = "s_slot"
    /\ LET c == su.cur
       IN IF c.steps = <<>>
          THEN /\ su' = [su EXCEPT !.cur.done = TRUE,
                           !.slot = su.slot + 1,
                           !.setRoute = Append(su.setRoute,
                              [route |-> c.newId,
                               mid |-> IF c.mappingID # 0 THEN c.mappingID
                                       ELSE c.oldMid])]
               /\ pc' = "s_legacy"
               /\ UNCHANGED <<log, result, partial>>
          ELSE IF Head(c.steps) = "create"
          THEN \E ok \in BOOLEAN :
                 LET call == Call("CreateRouteMapping", id, c.newId, ok)
                 IN /\ log' = Append(log, call)
                    /\ IF ok
                       THEN /\ su' = [su EXCEPT !.cur.steps = Tail(c.steps),
                                        !.cur.calls = Append(c.calls, call),
                                        !.cur.mappingID = FreshMid(c.newId),
                                        !.maps = su.maps \cup {FreshMid(c.newId)}]
                            /\ pc' = "s_slot"
                            /\ UNCHANGED <<result, partial>>
                       ELSE /\ su' = [su EXCEPT !.cur.done = TRUE,
                                        !.cur.calls = Append(c.calls, call),
                                        !.cur.err = "ErrMapping"]
                            /\ StdReturn("ErrMapping")
          ELSE \E code \in {"ok", "404", "error"} :
                 LET call == CallCode("DeleteRouteMapping", id, c.oldMid, code)
                 IN /\ log' = Append(log, call)
                    /\ IF DeleteFailed(code)
                       THEN /\ su' = [su EXCEPT !.cur.done = TRUE,
                                        !.cur.calls = Append(c.calls, call),
                                        !.cur.mappingID = 0,
                                        !.cur.err = "ErrUnmapping"]
                            /\ StdReturn("ErrUnmapping")
                       ELSE /\ su' = [su EXCEPT !.cur.steps = Tail(c.steps),
                                        !.cur.calls = Append(c.calls, call),
                                        !.maps = su.maps \ {c.oldMid}]
                            /\ pc' = "s_slot"
                            /\ UNCHANGED <<result, partial>>
    /\ UNCHANGED <<stdfixed, partialMap>>

\* ------------------------------------ `route` replaced by `routes`
\* faulty variant: only default_route is compared
MatchingSlotDefault(rc, r) == IF rc[1].route = r THEN 1 ELSE 0

\* lines 1105-1115: the first slot whose route is the desired one (0: none)
MatchingSlot(rc, r) ==
    IF \E s \in DOMAIN rc : rc[s].route = r
    THEN CHOOSE s \in DOMAIN rc :
           rc[s].route = r /\ \A t \in DOMAIN rc : rc[t].route = r => s <= t
    ELSE 0

\* lines 1102-1126: the next desired route takes the mapping id of the slot
\* that holds it, or is validated and mapped; after the last one d.Set and
\* d.SetPartial of `route` and `routes`
Std_Migrate ==
    /\ pc = "s_mig"
    /\ IF su.todo = <<>>
       THEN /\ su' = [su EXCEPT !.setRoutes = su.routesList]
            /\ partialMap' = partialMap \cup {"route", "routes"}
            /\ pc' = "s_binary"
            /\ UNCHANGED <<log, result, partial>>
       ELSE LET r == Head(su.todo)
                s == MatchingSlot(su.oldRC, r)
            IN /\ UNCHANGED partialMap
               /\ IF s # 0
                  THEN /\ su' = [su EXCEPT !.data =
                                   RouteEntry(r, su.oldRC[s].mid, "none")]
                       /\ pc' = "s_migPort"
                       /\ UNCHANGED <<log, result, partial>>
                  ELSE \E elsewhere, ok \in BOOLEAN :
                         IF ValidateRouteOfSet(elsewhere) # Nil
                         THEN /\ StdReturn(ValidateRouteOfSet(elsewhere))
                              /\ UNCHANGED <<log, su>>
                         ELSE /\ Issue("CreateRouteMapping", id, r, ok)
                              /\ IF ok
                                 THEN /\ su' = [su EXCEPT
                                           !.data = CreatedEntry(r, FreshMid(r)),
                                           !.maps = su.maps \cup {FreshMid(r)}]
                                      /\ pc' = "s_migPort"
                                      /\ UNCHANGED <<result, partial>>
                                 ELSE /\ StdReturn("ErrMapping")
                                      /\ UNCHANGED su
    /\ UNCHANGED stdfixed

\* lines 1127-1133: the port of the mapping is read and the element is put
\* into the list
Std_MigratePort ==
    /\ pc = "s_migPort"
    /\ \E ok \in BOOLEAN :
         /\ Issue("ReadRouteMapping", id, su.data.mid, ok)
         /\ IF ok
            THEN /\ su' = [su EXCEPT
                      !.routesList = SetAdd(su.routesList,
                          RouteEntry(su.data.route, su.data.mid, "read")),
                      !.todo = Tail(su.todo)]
                 /\ pc' = "s_mig"
                 /\ UNCHANGED <<result, partial>>
            ELSE /\ StdReturn("ErrReadMapping")
                 /\ UNCHANGED su
    /\ UNCHANGED <<stdfixed, partialMap>>

\* lines 1219-1248: when the source of the binary changed, prepareApp and
\* am.UploadApp, each of which ends the update when it fails
Std_Binary ==
    /\ pc = "s_binary"
    /\ \E changed, prepared, ok \in BOOLEAN :
         IF changed
         THEN IF prepared
              THEN /\ Issue("UploadApp", id, 0, ok)
                   /\ IF ok
                      THEN /\ su' = [su EXCEPT !.binaryUpdated = TRUE]
                           /\ pc' = "s_read"
                           /\ UNCHANGED <<result, partial>>
                      ELSE /\ StdReturn("ErrUpload")
                           /\ UNCHANGED su
              ELSE /\ StdReturn("ErrPrepare")
                   /\ UNCHANGED <<log, su>>
         ELSE /\ pc' = "s_read"
              /\ UNCHANGED <<log, result, partial, su>>
    /\ UNCHANGED <<stdfixed, partialMap>>

\* faulty variant: the package state is not looked at
RestageAfterReadBlind(binaryUpdated, restage, ps) == restage

\* lines 1263-1275: restage after the package state was read
RestageAfterRead(binaryUpdated, restage, ps) ==
    IF binaryUpdated \/ restage THEN ps # "PENDING" ELSE restage

\* lines 1263-1275: restart after the package state was read
RestartAfterRead(binaryUpdated, restage, restart, ps) ==
    IF (binaryUpdated \/ restage) /\ ps = "PENDING" THEN TRUE ELSE restart

\* lines 1253-1275: am.ReadApp, and what the package state makes of restage
\* and restart after a new binary or a change of a restage field; the
\* package state is looked at only then
Std_ReadApp ==
    /\ pc = "s_read"
    /\ \E ok \in BOOLEAN, ps \in {"PENDING", "STAGED"},
          st \in {"STARTED", "STOPPED"} :
         /\ Issue("ReadApp", id, 0, ok)
         /\ IF ok
            THEN /\ su' = [su EXCEPT
                      !.appState = st,
                      !.packageState = IF su.binaryUpdated \/ su.restage
                                       THEN ps ELSE "",
                      !.restage = RestageAfterRead(su.binaryUpdated,
                                                   su.restage, ps),
                      !.restart = RestartAfterRead(su.binaryUpdated,
                                                   su.restage, su.restart,
                                                   ps)]
                 /\ pc' = "s_restage"
                 /\ UNCHANGED <<result, partial>>
            ELSE /\ StdReturn("ErrReadApp")
                 /\ UNCHANGED su
    /\ UNCHANGED <<stdfixed, partialMap>>

\* faulty variant: the routes are reconciled after the restage
AfterRestageRoutes(appState) == "s_route"

\* lines 1281-1286: after am.RestageApp an application that was running is
\* waited for
AfterRestage(appState) ==
    IF appState = "STARTED" THEN "s_wait" ELSE "s_stopped"

\* lines 1277-1294: am.RestageApp, or am.StopApp of the restart when the
\* application is to run
Std_Restage ==
    /\ pc = "s_restage"
    /\ \E ok, stopped \in BOOLEAN :
         IF su.restage
         THEN /\ Issue("RestageApp", id, 0, ok)
              /\ IF ok
                 THEN /\ pc' = AfterRestage(su.appState)
                      /\ su' = [su EXCEPT !.stopped = stopped]
                      /\ UNCHANGED <<result, partial>>
                 ELSE /\ StdReturn("ErrRestage")
                      /\ UNCHANGED su
         ELSE IF su.restart /\ ~stopped
         THEN /\ Issue("StopApp", id, 0, ok)
              /\ IF ok
                 THEN /\ pc' = "s_start"
                      /\ su' = [su EXCEPT !.stopped = stopped]
                      /\ UNCHANGED <<result, partial>>
                 ELSE /\ StdReturn("ErrStop")
                      /\ UNCHANGED su
         ELSE /\ pc' = "s_stopped"
              /\ su' = [su EXCEPT !.stopped = stopped]
              /\ UNCHANGED <<log, result, partial>>
    /\ UNCHANGED <<stdfixed, partialMap>>

\* lines 1281-1286: am.WaitForAppToStart after the restage of an
\* application that was running
Std_Wait ==
    /\ pc = "s_wait"
    /\ \E ok \in BOOLEAN :
         /\ Issue("WaitForAppToStart", id, 0, ok)
         /\ IF ok
            THEN pc' = "s_stopped" /\ UNCHANGED <<result, partial>>
            ELSE StdReturn("ErrStart")
    /\ UNCHANGED <<stdfixed, partialMap, su>>

\* lines 1291-1293: am.StartApp of the restart
Std_Start ==
    /\ pc = "s_start"
    /\ \E ok \in BOOLEAN :
         /\ Issue("StartApp", id, 0, ok)
         /\ IF ok
            THEN pc' = "s_stopped" /\ UNCHANGED <<result, partial>>
            ELSE StdReturn("ErrStart")
    /\ UNCHANGED <<stdfixed, partialMap, su>>

\* lines 1296-1311: the final started/stopped state when `stopped` changed,
\* then d.Partial(false) and return nil
Std_Stopped ==
    /\ pc = "s_stopped"
    /\ \E changed, ok \in BOOLEAN :
         IF changed
         THEN /\ Issue(IF su.stopped THEN "StopApp" ELSE "StartApp", id, 0, ok)
              /\ StdReturn(IF ok THEN Nil
                           ELSE IF su.stopped THEN "ErrStop" ELSE "ErrStart")
         ELSE /\ StdReturn(Nil)
              /\ UNCHANGED log
    /\ UNCHANGED <<stdfixed, partialMap, su>>

\* the update runs once more with the same configuration: the `routes`
\* section finds the recorded set as the old value and the configured routes
\* as the new one
Std_ReconcileAgain ==
    /\ pc = "idle"
    /\ su.mode = "std" /\ su.changed = "routes" /\ su.pass = 1
    /\ result = Nil
    /\ LET os == StateAttr("routes", su.setRoutes, su.os, partial, partialMap)
           ns == Planned(os, Keys(su.ns))
       IN su' = [su EXCEPT !.os = os, !.ns = ns, !.updatedRoutes = os,
                           !.setRoutes = ns, !.pass = 2, !.mark = Len(log),
                           !.binaryUpdated = FALSE, !.restage = FALSE,
                           !.restart = FALSE, !.packageState = "",
                           !.todo = SeqOf(Keys(SetDifference(ns, os)))]
    /\ partial' = TRUE
    /\ partialMap' = {}
    /\ pc' = "s_rsAdd"
    /\ UNCHANGED <<stdfixed, log, result>>

\* ------------------------------------------------------ resourceAppDelete
\* variables the delete operation leaves alone until it returns
delfixed == <<gpc, err, chanVal, cfg, deposed, apps, mappings, nextId, appID,
              instReq, bi, stepErrs, ret, bg, readResp, prunedFrom, op,
              updated, vr, partial, partialMap>>

\* resourceAppDelete is entered: the service_binding list of the state, and
\* its `route` block or its `routes` set (the two exclude each other)
resourceAppDelete ==
    /\ pc = "idle"
    /\ id # NoId
    /\ su.mode = "none"
    /\ \E old \in OldBindingLists, kind \in {"none", "route", "routes"} :
       \E rc \in IF kind = "route" THEN OldRouteConfigs ELSE {<<>>},
          os \in IF kind = "routes" THEN ObservedSets ELSE {{}} :
         su' = [StartSU EXCEPT !.mode = "delete", !.toDelete = old, !.k = 1,
                               !.upstream = Upstream(old), !.oldRC = rc,
                               !.os = os, !.slot = 1,
                               !.maps = ({rc[s].mid : s \in DOMAIN rc}
                                           \cup Mids(os)) \ {0},
                               !.todo = SeqOf(Keys(os))]
    /\ log' = <<>>
    /\ result' = Nil
    /\ pc' = "d_bind"
    /\ UNCHANGED <<delfixed, id, state>>

\* faulty variant: removeServiceBindings goes on after a failed call
BindingDeleteFailedNever(code) == FALSE

\* lines 1586-1588: removeServiceBindings returns whatever error
\* am.DeleteServiceBinding gives, a 404 included
BindingDeleteFailed(code) == code # "ok"

\* lines 1324-1328: removeServiceBindings, one entry of its loop; an error
\* ends the operation
Del_RemoveBinding ==
    /\ pc = "d_bind"
    /\ IF su.k > Len(su.toDelete)
       THEN /\ su' = [su EXCEPT !.removeDone = TRUE]
            /\ pc' = "d_slots"
            /\ UNCHANGED <<log, result>>
       ELSE LET b == su.toDelete[su.k]
            IN IF RemoveEntry(b) = "delete"
               THEN \E code \in {"ok", "404", "error"} :
                      /\ log' = Append(log, CallCode("DeleteServiceBinding",
                                                     id, b.bid, code))
                      /\ su' = [su EXCEPT !.k = su.k + 1,
                                  !.upstream = IF code = "error"
                                               THEN su.upstream
                                               ELSE su.upstream \ {b}]
                      /\ result' = IF BindingDeleteFailed(code)
                                   THEN "ErrDeleteBinding" ELSE Nil
                      /\ pc' = IF BindingDeleteFailed(code) THEN "idle"
                               ELSE "d_bind"
               ELSE /\ su' = [su EXCEPT !.k = su.k + 1]
                    /\ pc' = "d_bind"
                    /\ UNCHANGED <<log, result>>
    /\ UNCHANGED <<delfixed, id, state>>

\* lines 1329-1350: the mapping id of the next slot of the `route` block is
\* deleted when there is one
Del_SlotMapping ==
    /\ pc = "d_slots"
    /\ IF su.slot > Len(su.oldRC)
       THEN /\ pc' = "d_routes"
            /\ UNCHANGED <<log, result, su>>
       ELSE LET mid == su.oldRC[su.slot].mid
            IN IF mid # 0
               THEN \E code \in {"ok", "404", "error"} :
                      /\ log' = Append(log, CallCode("DeleteRouteMapping",
                                                     id, mid, code))
                      /\ su' = [su EXCEPT !.slot = su.slot + 1,
                                  !.maps = IF DeleteFailed(code) THEN su.maps
                                           ELSE su.maps \ {mid}]
                      /\ result' = IF DeleteFailed(code) THEN "ErrUnmapping"
                                   ELSE Nil
                      /\ pc' = IF DeleteFailed(code) THEN "idle" ELSE "d_slots"
               ELSE /\ su' = [su EXCEPT !.slot = su.slot + 1]
                    /\ pc' = "d_slots"
                    /\ UNCHANGED <<log, result>>
    /\ UNCHANGED <<delfixed, id, state>>

\* lines 1351-1363: the mapping of the next element of the `routes` set is
\* deleted when the element has a mapping id
Del_RouteMapping ==
    /\ pc = "d_routes"
    /\ IF su.todo = <<>>
       THEN /\ pc' = "d_app"
            /\ UNCHANGED <<log, result, su>>
       ELSE LET mid == EntryOf(su.os, Head(su.todo)).mid
            IN IF mid # 0
               THEN \E code \in {"ok", "404", "error"} :
                      /\ log' = Append(log, CallCode("DeleteRouteMapping",
                                                     id, mid, code))
                      /\ su' = [su EXCEPT !.todo = Tail(su.todo),
                                  !.maps = IF DeleteFailed(code) THEN su.maps
                                           ELSE su.maps \ {mid}]
                      /\ result' = IF DeleteFailed(code) THEN "ErrUnmapping"
                                   ELSE Nil
                      /\ pc' = IF DeleteFailed(code) THEN "idle" ELSE "d_routes"
               ELSE /\ su' = [su EXCEPT !.todo = Tail(su.todo)]
                    /\ pc' = "d_routes"
                    /\ UNCHANGED <<log, result>>
    /\ UNCHANGED <<delfixed, id, state>>

\* lines 1364-1375: am.DeleteApp, whose error is only logged; return nil, and
\* the resource leaves the state
Del_DeleteApp ==
    /\ pc = "d_app"
    /\ \E code \in {"ok", "404", "error"} :
         log' = Append(log, CallCode("DeleteApp", id, 0, code))
    /\ result' = Nil
    /\ id' = NoId
    /\ state' = NoState
    /\ pc' = "idle"
    /\ UNCHANGED <<delfixed, su>>

StdNext ==
    \/ resourceAppUpdate_Standard
    \/ Std_Push
    \/ Std_BindingChange
    \/ Std_RemoveBinding
    \/ Std_AddBinding
    \/ Std_Bound
    \/ Std_RouteChange
    \/ Std_SetAdd
    \/ Std_SetPort
    \/ Std_SetDelete
    \/ Std_LegacySlot
    \/ Std_SlotStep
    \/ Std_Migrate
    \/ Std_MigratePort
    \/ Std_Binary
    \/ Std_ReadApp
    \/ Std_Restage
    \/ Std_Wait
    \/ Std_Start
    \/ Std_Stopped
    \/ Std_ReconcileAgain
    \/ resourceAppDelete
    \/ Del_RemoveBinding
    \/ Del_SlotMapping
    \/ Del_RouteMapping
    \/ Del_DeleteApp

\* an application that was created earlier and is about to be updated
InitStd ==
    /\ pc = "idle" /\ gpc = "none" /\ err = Nil /\ chanVal = Nil
    /\ cfg = DefaultConfig /\ id = 1 /\ deposed = {} /\ partial = FALSE
    /\ partialMap = {} /\ state = [id |-> 1, deposed |-> {}]
    /\ apps = [a \in AppIds |-> IF a = 1 THEN ExistingApp ELSE NoApp]
    /\ mappings = {} /\ nextId = 2
    /\ log = <<>> /\ appID = NoId /\ instReq = 0 /\ bi = 0 /\ stepErrs = {}
    /\ ret = Nil /\ bg = NoBG /\ readResp = [a \in AppIds |-> "none"]
    /\ prunedFrom = {} /\ op = "update" /\ result = Nil /\ updated = FALSE
    /\ su = NoSU
    /\ vr = NoVR

SpecStd == InitStd /\ [][StdNext]_vars

\* --------------------------------- create and standard update side by side
\* resourceAppUpdate of the application that existed from the start
Ops_Update == op = "update" /\ resourceAppUpdate_Standard

\* one operation on a resource: resourceAppCreate of a new one (d.Id() is
\* empty, so the stage_route branch is not taken), or the standard update
\* of an existing one
OpsNext ==
    \/ resourceAppCreate \/ resourceAppCreate_Return
    \/ CfApp_PrepareApp \/ CfApp_ValidateRoutes \/ CfApp_CreateApp
    \/ CfApp_Prepare \/ CfApp_Bind \/ CfApp_BindCheck
    \/ CfApp_RouteDefault \/ CfApp_RouteLive
    \/ CfApp_Join \/ CfApp_Start \/ CfApp_ReadApp \/ CfApp_Defer \/ CfApp_Exit
    \/ Upload_UploadApp \/ Upload_Check \/ Upload_RemoveAll \/ Upload_Send
    \/ Ops_Update
    \/ Std_Push
    \/ Std_BindingChange
    \/ Std_RemoveBinding
    \/ Std_AddBinding
    \/ Std_Bound
    \/ Std_RouteChange
    \/ Std_SetAdd
    \/ Std_SetPort
    \/ Std_SetDelete
    \/ Std_LegacySlot
    \/ Std_SlotStep
    \/ Std_Migrate
    \/ Std_MigratePort
    \/ Std_Binary
    \/ Std_ReadApp
    \/ Std_Restage
    \/ Std_Wait
    \/ Std_Start
    \/ Std_Stopped

SpecOps == (Init \/ InitStd) /\ [][OpsNext]_vars

\* ------------------------------ the deposed map across a standard update
\* an application whose persisted state lists deposed applications; the
\* configuration never holds a value for `deposed`
InitFrame ==
    /\ pc = "idle" /\ gpc = "none" /\ err = Nil /\ chanVal = Nil
    /\ cfg = DefaultConfig /\ id = 1 /\ deposed = {} /\ partial = FALSE
    /\ partialMap = {}
    /\ state \in {[id |-> 1, deposed |-> D] : D \in SUBSET (AppIds \ {1})}
    /\ apps = [a \in AppIds |-> IF a = 1 THEN ExistingApp ELSE NoApp]
    /\ mappings = {} /\ nextId = 2
    /\ log = <<>> /\ appID = NoId /\ instReq = 0 /\ bi = 0 /\ stepErrs = {}
    /\ ret = Nil /\ bg = NoBG /\ readResp = [a \in AppIds |-> "none"]
    /\ prunedFrom = {} /\ op = "update" /\ result = Nil /\ updated = FALSE
    /\ su = NoSU
    /\ vr = NoVR

\* resourceAppUpdate when the service bindings changed or neither bindings
\* nor routes did
Frame_Update ==
    /\ resourceAppUpdate_Standard
    /\ su'.changed \in {"none", "service_binding"}

FrameNext ==
    \/ Frame_Update
    \/ Std_Push
    \/ Std_BindingChange
    \/ Std_RemoveBinding
    \/ Std_AddBinding
    \/ Std_Bound
    \/ Std_RouteChange
    \/ Std_Binary
    \/ Std_ReadApp
    \/ Std_Restage
    \/ Std_Wait
    \/ Std_Start
    \/ Std_Stopped

SpecFrame == InitFrame /\ [][FrameNext]_vars

\* ------------------------------------------ create under fair scheduling
\* resourceAppCreate of a new resource with its goroutine
LiveNext ==
    \/ resourceAppCreate \/ resourceAppCreate_Return
    \/ CfApp_PrepareApp \/ CfApp_ValidateRoutes \/ CfApp_CreateApp
    \/ CfApp_Prepare \/ CfApp_Bind \/ CfApp_BindCheck
    \/ CfApp_RouteDefault \/ CfApp_RouteLive
    \/ CfApp_Join \/ CfApp_Start \/ CfApp_ReadApp \/ CfApp_Defer \/ CfApp_Exit
    \/ Upload_UploadApp \/ Upload_Check \/ Upload_RemoveAll \/ Upload_Send

\* the Go scheduler runs a goroutine that can take a step: one create ends
\* after finitely many steps of the main flow, so the upload goroutine is
\* not starved either
SpecLive == Init /\ [][LiveNext]_vars /\ WF_vars(LiveNext)

\* --------------------------------------- rollouts under fair scheduling
\* the state resourceAppCreate leaves for a docker application of V instances
\* without service bindings and routes, every call having succeeded
InitScale ==
    \E V \in 1..MaxInstances :
        /\ pc = "idle" /\ gpc = "none" /\ err = Nil /\ chanVal = Nil
        /\ cfg = [DefaultConfig EXCEPT !.docker = TRUE, !.instances = V]
        /\ id = 1 /\ deposed = {} /\ partial = FALSE /\ partialMap = {}
        /\ state = [id |-> 1, deposed |-> {}]
        /\ apps = [a \in AppIds |->
                     IF a = 1 THEN [ExistingApp EXCEPT !.instances = V]
                     ELSE NoApp]
        /\ mappings = {} /\ nextId = 2
        /\ log = <<Call("CreateApp", 1, V, TRUE),
                   Call("StartDockerApp", 1, 0, TRUE),
                   Call("ReadApp", 1, 0, TRUE)>>
        /\ appID = 1 /\ instReq = V /\ bi = 0 /\ stepErrs = {} /\ ret = Nil
        /\ bg = NoBG /\ readResp = [a \in AppIds |-> "none"]
        /\ prunedFrom = {} /\ op = "create" /\ result = Nil
        /\ updated = FALSE /\ su = NoSU /\ vr = NoVR

\* one resourceAppUpdate that takes the rollout (d.Id() is set, so the
\* replacement is created through the stage_route branch)
ScaleNext ==
    \/ resourceAppUpdate
    \/ BlueGreenNext
    \/ CfApp_PrepareApp \/ CfApp_ValidateRoutes \/ CfApp_CreateApp
    \/ CfApp_Prepare \/ CfApp_Bind \/ CfApp_BindCheck \/ CfApp_RouteStage
    \/ CfApp_Join \/ CfApp_Start \/ CfApp_ReadApp \/ CfApp_Defer \/ CfApp_Exit
    \/ Upload_UploadApp \/ Upload_Check \/ Upload_RemoveAll \/ Upload_Send

\* an operation that is under way is run to its end
SpecScale == InitScale /\ [][ScaleNext]_vars /\ WF_vars(ScaleNext)

\* ---------------------------------- the plan of an update and its dispatch
\* the attributes resourceAppUpdate asks about, by the flag their call passes
\* (getChangedValue*(key, &flag, d)) or the question asked of them
FlaggedAttributes ==
    {"name", "space", "instances", "enable_ssh", "ports", "memory",
     "disk_quota", "command", "health_check_http_endpoint",
     "health_check_type", "health_check_timeout", "buildpack", "stack",
     "environment", "docker_image", "docker_credentials"}
Attributes ==
    FlaggedAttributes \cup {"url", "git", "github_release", "add_content",
                            "service_binding", "route", "routes"}

\* the sets of attributes one plan can change
ChangedSets == {F \in SUBSET Attributes : F # {} /\ Cardinality(F) <= MaxChanged}

\* faulty variant: environment is passed the restart flag
TierFlagSlip(attr) ==
    IF attr \in {"name", "space", "instances", "enable_ssh", "docker_image",
                 "docker_credentials"} THEN "update"
    ELSE IF attr \in {"buildpack", "stack"} THEN "restage"
    ELSE "restart"

\* lines 778-806: the flag each attribute's call is given
TierFlag(attr) ==
    IF attr \in {"name", "space", "instances", "enable_ssh", "docker_image",
                 "docker_credentials"} THEN "update"
    ELSE IF attr \in {"buildpack", "stack", "environment"} THEN "restage"
    ELSE "restart"

\* getChangedValue*(key, &flag, d): the flag is set when the attribute changed
GetChanged(attr, F) == attr \in F

\* a flag after lines 778-806
Flag(name, F) ==
    \E attr \in FlaggedAttributes : TierFlag(attr) = name /\ GetChanged(attr, F)

\* d.HasChange of service_binding, url, git, github_release or add_content
\* (lines 835-836)
RolloutAttributes ==
    {"service_binding", "url", "git", "github_release", "add_content"}

\* faulty variant: a new resource is forced only together with a change of git
CustomizeDiffGitOnly(F) ==
    IF F \cap {"docker_image", "docker_credentials"} # {} /\ "git" \in F
    THEN F \cap {"docker_image", "docker_credentials", "git", "github_release",
                 "url"}
    ELSE {}

\* CustomizeDiff: the attributes given ForceNew
CustomizeDiff(F) ==
    IF F \cap {"docker_image", "docker_credentials"} # {}
       /\ F \cap {"git", "github_release", "url"} # {}
    THEN F \cap {"docker_image", "docker_credentials", "git", "github_release",
                 "url"}
    ELSE {}

\* the changed attributes that require a new resource: those of
\* CustomizeDiff and `stack`, which the schema declares ForceNew
RequiresNew(F) == CustomizeDiff(F) \cup (F \cap {"stack"})

\* the plan is made: the changed attributes, blue_green.enable, and whether
\* the resource has to be replaced
Plan_Diff ==
    /\ pc = "idle"
    /\ su.mode = "none"
    /\ \E F \in ChangedSets, enabled \in BOOLEAN :
         /\ su' = [mode |-> "plan", fields |-> F, enabled |-> enabled,
                   forceNew |-> RequiresNew(F), update |-> FALSE,
                   restart |-> FALSE, restage |-> FALSE, chosen |-> "none"]
         /\ pc' = IF RequiresNew(F) # {} THEN "p_replace" ELSE "p_update"
    /\ UNCHANGED <<stdfixed, log, result, partial, partialMap>>

\* a plan that requires a new resource is applied by deleting the resource
\* and creating it again, never by resourceAppUpdate
Plan_Replace ==
    /\ pc = "p_replace"
    /\ su' = [su EXCEPT !.chosen = "replace"]
    /\ pc' = "idle"
    /\ UNCHANGED <<stdfixed, log, result, partial, partialMap>>

\* resourceAppUpdate up to the dispatch, with the changed attributes of the
\* plan: the three flags, the push, and the choice between
\* resourceAppBlueGreenUpdate and resourceAppStandardUpdate
resourceAppUpdate_Dispatch ==
    /\ pc = "p_update"
    /\ LET update == Flag("update", su.fields)
           restart == Flag("restart", su.fields)
           restage == Flag("restage", su.fields)
           changed == su.fields \cap RolloutAttributes # {}
       IN \E ok \in BOOLEAN :
            /\ ~(update \/ restart \/ restage) => ok
            /\ log' = IF update \/ restart \/ restage
                      THEN <<Call("UpdateApp", NoId, 0, ok)>> ELSE <<>>
            /\ partialMap' = IF (update \/ restart \/ restage) /\ ok
                             THEN PushedKeys ELSE {}
            /\ result' = IF ok THEN Nil ELSE "ErrUpdateApp"
            /\ su' = [su EXCEPT !.update = update, !.restart = restart,
                        !.restage = restage,
                        !.chosen = IF ~ok THEN "failed"
                                   ELSE IF BlueGreen(su.enabled, restart,
                                                     restage, changed)
                                   THEN "bluegreen" ELSE "standard"]
    /\ partial' = TRUE
    /\ pc' = "idle"
    /\ UNCHANGED stdfixed

PlanNext ==
    \/ Plan_Diff
    \/ Plan_Replace
    \/ resourceAppUpdate_Dispatch

SpecPlan == InitStd /\ [][PlanNext]_vars

\* ===================================================== properties
AllOk == \A i \in DOMAIN log : log[i].ok
Issued(c, a) == \E i \in DOMAIN log : log[i].call = c /\ log[i].app = a
UpdateDone == pc = "idle" /\ op = "update"
ReadDone == pc = "idle" /\ op = "read"
CreateCfAppReturned == pc = "c_return"

\* scaling calls of the rollout in the log
IsUp(e) == e.call = "UpdateApp" /\ e.app = id /\ e.n > 0
IsDown(e) == e.call = "UpdateApp" /\ e.app = bg.ven /\ e.n > 0
Ups == SelectSeq(log, IsUp)
Downs == SelectSeq(log, IsDown)
UpsBefore(i) == Cardinality({j \in 1..(i - 1) : IsUp(log[j])})
DownsUpTo(i) == Cardinality({j \in 1..i : IsDown(log[j])})
Min(a, b) == IF a < b THEN a ELSE b

Destructive ==
    /\ Len(log') = Len(log) + 1
    /\ LET e == log'[Len(log')]
       IN \/ e.call = "CreateRouteMapping" /\ pc \in {"bg_rebindDefault", "bg_rebindLive"}
          \/ e.call = "UpdateApp" /\ e.app = bg.ven /\ e.n > 0 /\ pc = "bg_down"
          \/ e.call = "DeleteApp" /\ e.app = bg.ven /\ pc = "bg_delete"

\* C2: whenever a destructive step of the rollout is issued, the venerable id
\* is already in the deposed map
C2_DeposedBeforeDestructive ==
    [][Destructive => (bg.ven # NoId /\ bg.ven \in deposed)]_vars

\* a rollout that scaled the venerable down and deleted it
C2_Witness ==
    /\ UpdateDone /\ result = Nil /\ bg.recorded /\ bg.V >= 2
    /\ Issued("DeleteApp", bg.ven)

\* C3: an update that fails after the venerable id was recorded returns an
\* error and the state handed back holds the venerable id in its deposed map
C3_FailedRolloutKeepsDeposed ==
    (UpdateDone /\ bg.recorded /\ result # Nil) => bg.ven \in state.deposed

C5_VenerableStaysTracked ==
    (pc = "idle" /\ bg.recorded /\ apps[bg.ven].exists) => bg.ven \in state.deposed

\* C6: after a Read that returns without error and keeps the resource, an id
\* is gone from the deposed map, in the resource data and in the state handed
\* back, exactly when its existence check answered 404
C6_PruneOnlyAbsent ==
    (ReadDone /\ prunedFrom # {} /\ result = Nil /\ id # NoId) =>
        \A r \in prunedFrom :
            /\ readResp[r] = "404" => r \notin deposed \cup state.deposed
            /\ readResp[r] # "404" => r \in deposed \cap state.deposed

\* C7: the pruning of Read is idempotent: the map Read leaves is the map
\* pruned once, pruning it again with the same answers of the platform
\* changes nothing, and a Read without error hands that map back
C7_PruneIdempotent ==
    (ReadDone /\ prunedFrom # {}) =>
        /\ deposed = Prune(prunedFrom, readResp)
        /\ Prune(deposed, readResp) = deposed
        /\ (result = Nil /\ id # NoId) => state.deposed = deposed

\* a pruning that dropped an entry and retained another
C7_Witness ==
    /\ ReadDone /\ prunedFrom # {}
    /\ deposed # {} /\ deposed # prunedFrom

\* steps of create whose failure the cleanup is promised for
CleanupErrs == {"ErrUpload", "ErrBinding", "ErrMapping", "ErrStart", "ErrReadApp"}

\* C8: when resourceAppCreateCfApp returns and a step after CreateApp has
\* failed, DeleteApp was issued for the created application
C8_FailedCreateDeletes ==
    (CreateCfAppReturned /\ appID # NoId /\ stepErrs \cap CleanupErrs # {}) =>
        Issued("DeleteApp", appID)

\* C9: when resourceAppCreateCfApp returns an error after CreateApp
\* succeeded, the error is that of a failed step, not of the cleanup
C9_OriginalErrorReturned ==
    (CreateCfAppReturned /\ appID # NoId /\ ret # Nil) => ret \in stepErrs

\* C10: source-based create, the upload failed, every service binding and
\* route mapping succeeded: the upload error is returned and no start command
\* was issued
C10_UploadFailureNoStart ==
    (/\ CreateCfAppReturned /\ ~cfg.docker
     /\ "ErrUpload" \in stepErrs
     /\ stepErrs \cap {"ErrBinding", "ErrMapping", "ErrNoStageRoute"} = {}) =>
        /\ ret = "ErrUpload"
        /\ ~Issued("StartApp", appID)
        /\ ~Issued("StartDockerApp", appID)
        /\ ~Issued("RestageApp", appID)

\* the mappings reported for the route of the validateRoute call
VRMapped(a) == \E i \in DOMAIN vr.found : vr.found[i] = a
VRForeign == \E i \in DOMAIN vr.found : vr.found[i] # vr.appID

\* C12: a validateRoute call on a slot that names a route, whose mapping
\* lookup succeeded: the route is rejected as already mapped when some mapping
\* is to an application other than the excluded one, and accepted, with its
\* route id, when it is unmapped or mapped only to the excluded application
C12_ValidateRoute ==
    (vr.called /\ RouteId(vr.routeConfig, vr.route) # "" /\ ~vr.readFails) =>
        /\ VRForeign => vr.out.err = "ErrRouteMapped"
        /\ ~VRForeign =>
              /\ vr.out.err = Nil
              /\ vr.out.routeID = RouteId(vr.routeConfig, vr.route)

\* commands that start, restart or restage a source-based application
StartCommands == {"StartApp", "StopApp", "RestageApp"}

\* C11: every start, restart or restage command issued by create for a
\* source-based application comes after an UploadApp of that application that
\* succeeded
C11_UploadBarrier ==
    ~cfg.docker =>
        \A i \in DOMAIN log :
            (log[i].call \in StartCommands /\ log[i].app = appID) =>
                \E j \in 1..(i - 1) :
                    /\ log[j].call = "UploadApp"
                    /\ log[j].app = log[i].app
                    /\ log[j].ok

\* the binding calls of the running standard update
IsDeleteBinding(e) == e.call = "DeleteServiceBinding"
IsCreateBinding(e) == e.call = "CreateServiceBinding"
DeleteBindingCalls == SelectSeq(log, IsDeleteBinding)
CreateBindingCalls == SelectSeq(log, IsCreateBinding)
HasBid(b) == b.bid # 0
WithBid(list) == SelectSeq(list, HasBid)
AllCallsOk(calls) == \A i \in DOMAIN calls : calls[i].ok
Range(q) == {q[i] : i \in DOMAIN q}

\* C18: removeServiceBindings issues DeleteServiceBinding for the entries
\* with a binding id, in order, and for no other entry; when it returns
\* without error it has done so for every one of them, entries without a
\* binding id having been passed over; it returns an error only when a
\* DeleteServiceBinding call failed
C18_RemoveSkipsEmpty ==
    su.mode = "std" =>
        /\ Len(DeleteBindingCalls) <= Len(WithBid(su.toDelete))
        /\ \A i \in DOMAIN DeleteBindingCalls :
              DeleteBindingCalls[i].n = WithBid(su.toDelete)[i].bid
        /\ su.removeDone =>
              /\ Len(DeleteBindingCalls) = Len(WithBid(su.toDelete))
              /\ AllCallsOk(DeleteBindingCalls)
        /\ (pc = "idle" /\ result = "ErrDeleteBinding") =>
              /\ DeleteBindingCalls # <<>>
              /\ ~DeleteBindingCalls[Len(DeleteBindingCalls)].ok

\* an entry without a binding id was passed over and a later entry deleted
C18_Witness ==
    /\ su.mode = "std" /\ su.removeDone
    /\ Len(su.toDelete) = 2
    /\ su.toDelete[1].bid = 0 /\ su.toDelete[2].bid # 0
    /\ Len(DeleteBindingCalls) = 1

\* C19: when addServiceBindings has returned: CreateServiceBinding was
\* issued for the entries in order up to the first failure and for none
\* after it, no binding was deleted afterwards, and the entries returned are
\* the ones bound, in order, each with the binding id of the platform; an
\* error is returned exactly when the last call failed
C19_AddStopsAtFailure ==
    (su.mode = "std" /\ su.addDone) =>
        LET calls == CreateBindingCalls
            n == Len(calls)
            bound == IF su.addErr = Nil THEN n ELSE n - 1
        IN /\ n <= Len(su.toAdd)
           /\ \A i \in 1..n : calls[i].n = su.toAdd[i].si
           /\ \A i \in 1..n : calls[i].ok <=> i <= bound
           /\ su.addErr = Nil => n = Len(su.toAdd)
           /\ su.addErr # Nil => n >= 1
           /\ Len(su.added) = bound
           /\ \A i \in 1..bound :
                 su.added[i] = [si |-> su.toAdd[i].si,
                                bid |-> FreshBid(su.toAdd[i].si)]
           /\ \A i, j \in DOMAIN log :
                 (i < j /\ IsCreateBinding(log[i])) => ~IsDeleteBinding(log[j])
           /\ Range(su.added) \subseteq su.upstream

\* the second CreateServiceBinding failed after the first succeeded
C19_Witness ==
    /\ su.mode = "std" /\ su.addDone
    /\ su.addErr # Nil
    /\ Len(su.added) = 1

\* the service_binding list of the state handed back
KeptBindings ==
    StateAttr("service_binding", su.setBindings, su.old, partial, partialMap)

\* C20: a standard update that returns because a service binding could not
\* be created: the service_binding list of the state handed back holds every
\* binding that was created, with its binding id, and none of the bindings
\* that were deleted
C20_PartialBindingsKept ==
    (pc = "idle" /\ su.mode = "std" /\ su.addDone /\ su.addErr # Nil) =>
        /\ Range(su.added) \subseteq Range(KeptBindings)
        /\ \A i \in DOMAIN DeleteBindingCalls :
              DeleteBindingCalls[i].ok =>
                  \A b \in Range(KeptBindings) : b.bid # DeleteBindingCalls[i].n

\* ------------------------------------------------------ routes-set claims
StdDone == pc = "idle" /\ su.mode = "std" /\ result = Nil
IsCreateMapping(e) == e.call = "CreateRouteMapping"
IsDeleteMapping(e) == e.call = "DeleteRouteMapping"
CreateMappingCalls == SelectSeq(log, IsCreateMapping)
DeleteMappingCalls == SelectSeq(log, IsDeleteMapping)

\* the `routes` set the state holds once the operation has returned
KeptRoutes == StateAttr("routes", su.setRoutes, su.os, partial, partialMap)

\* a sequence of calls names each member of a set once and nothing else
ExactlyFor(calls, S) ==
    /\ {calls[i].n : i \in DOMAIN calls} = S
    /\ Len(calls) = Cardinality(S)

\* C13: a standard update of the `routes` set without a remote failure
\* issues CreateRouteMapping exactly for the desired routes that were not
\* observed and DeleteRouteMapping exactly for the observed elements that are
\* not desired; the recorded set then holds exactly the desired routes, and
\* the created elements carry the new mapping id and the port read back
C13_SetReconciled ==
    (StdDone /\ su.changed = "routes" /\ su.pass = 1 /\ AllCallsOk(log)) =>
        /\ ExactlyFor(CreateMappingCalls, Keys(su.ns) \ Keys(su.os))
        /\ ExactlyFor(DeleteMappingCalls, Mids(SetDifference(su.os, su.ns)))
        /\ Keys(KeptRoutes) = Keys(su.ns)
        /\ \A r \in Keys(su.ns) \ Keys(su.os) :
             EntryOf(KeptRoutes, r) = RouteEntry(r, FreshMid(r), "read")

\* the calls of the second run
SecondRun == SubSeq(log, su.mark + 1, Len(log))

\* C14: after a successful reconciliation of the `routes` set, reconciling
\* again with the same desired set against the recorded state issues no
\* CreateRouteMapping and no DeleteRouteMapping and leaves the recorded set
\* as it was
C14_SetIdempotent ==
    (StdDone /\ su.changed = "routes" /\ su.pass = 2 /\ AllCallsOk(log)) =>
        /\ \A i \in DOMAIN SecondRun :
             ~IsCreateMapping(SecondRun[i]) /\ ~IsDeleteMapping(SecondRun[i])
        /\ KeptRoutes = su.os

\* --------------------------------------------------- legacy slot claims
IsCreateFor(e, r) == IsCreateMapping(e) /\ e.app = id /\ e.n = r
IsDeleteOf(e, mid) == IsDeleteMapping(e) /\ e.n = mid

\* updateAppRouteMappings was called for a slot
InSlot == su.mode = "std" /\ su.changed = "route" /\ su.cur.slot # 0

\* C15: updateAppRouteMappings, for each slot, issues no mapping call when
\* the old route id equals the new one; otherwise, when it returns without
\* error, it has created a mapping to the application for the new id if that
\* is non-empty (and none else), has deleted the old mapping if the old id
\* is non-empty (and none else), and returns the id of the new mapping
C15_LegacySlot ==
    InSlot =>
      LET c == su.cur
          creates == SelectSeq(c.calls, IsCreateMapping)
          deletes == SelectSeq(c.calls, IsDeleteMapping)
      IN /\ c.oldId = c.newId => c.calls = <<>>
         /\ (c.done /\ c.err = Nil /\ c.oldId # c.newId) =>
              /\ IF c.newId # 0
                 THEN /\ Len(creates) = 1
                      /\ IsCreateFor(creates[1], c.newId)
                      /\ c.mappingID = FreshMid(c.newId)
                 ELSE creates = <<>> /\ c.mappingID = 0
              /\ IF c.oldId # 0
                 THEN Len(deletes) = 1 /\ IsDeleteOf(deletes[1], c.oldMid)
                 ELSE deletes = <<>>

\* a slot whose route was replaced: one mapping made, the old one deleted
C15_Witness ==
    /\ InSlot /\ su.cur.done /\ su.cur.err = Nil
    /\ su.cur.oldId # 0 /\ su.cur.newId # 0 /\ su.cur.oldId # su.cur.newId
    /\ Len(su.cur.calls) = 2

\* ------------------------------------------------------ migration claim
Migrating == su.mode = "std" /\ su.changed = "migrate"
CreatedRoutes == {log[i].n : i \in {j \in DOMAIN log : IsCreateMapping(log[j])}}
InSomeSlot(r) == \E s \in DOMAIN su.oldRC : su.oldRC[s].route = r

\* C17: when `route` is replaced by `routes`, a desired route that is the
\* value of a legacy slot takes that slot's mapping id and no
\* CreateRouteMapping is issued for it; CreateRouteMapping is issued only
\* for desired routes that match no slot, and those carry the new mapping id
C17_MigrationInherits ==
    Migrating =>
        /\ \A r \in CreatedRoutes : r \in Keys(su.ns) /\ ~InSomeSlot(r)
        /\ \A e \in su.routesList :
             IF InSomeSlot(e.route)
             THEN \E s \in DOMAIN su.oldRC :
                    su.oldRC[s].route = e.route /\ e.mid = su.oldRC[s].mid
             ELSE e.route \in CreatedRoutes /\ e.mid = FreshMid(e.route)

\* a migration that succeeded with one route taken over from a slot other
\* than default_route and one route newly mapped
C17_Witness ==
    /\ Migrating /\ StdDone
    /\ \E e \in KeptRoutes :
         /\ InSomeSlot(e.route) /\ su.oldRC[1].route # e.route
         /\ e.mid = OldMid(e.route)
    /\ \E e \in KeptRoutes : ~InSomeSlot(e.route) /\ e.mid = FreshMid(e.route)

\* --------------------------------------------------------- the 404 claim
\* the call a step has just issued, when it is a DeleteRouteMapping that the
\* platform answered with 404
Deleted404 ==
    /\ Len(log') = Len(log) + 1
    /\ IsDeleteMapping(log'[Len(log')])
    /\ log'[Len(log')].code = "404"

\* the operation returned the error of a DeleteRouteMapping
UnmappingFailed ==
    su.mode \in {"std", "delete"} /\ pc = "idle" /\ result = "ErrUnmapping"

\* C16: wherever a route mapping is deleted (legacy slot update, `routes`
\* update, resource delete), a 404 answer of DeleteRouteMapping is taken as
\* success: the operation goes on with its next step and returns no error
\* for that call
C16_NotFoundIsSuccess ==
    /\ [][Deleted404 => (pc' # "idle" /\ result' = Nil)]_vars
    /\ [](UnmappingFailed =>
            /\ IsDeleteMapping(log[Len(log)])
            /\ log[Len(log)].code \notin {"ok", "404"})

\* a resource delete that met a 404 on a mapping and went on to delete the
\* application
C16_Witness ==
    /\ su.mode = "delete" /\ pc = "idle" /\ result = Nil /\ id = NoId
    /\ \E i \in DOMAIN log :
         IsDeleteMapping(log[i]) /\ log[i].code = "404"

\* ------------------------------------------------- classification claims
\* the tiers of the specification, by attribute
InPlaceFields == {"name", "space", "instances", "enable_ssh"}
RestartFields ==
    {"ports", "memory", "disk_quota", "command", "health_check_http_endpoint",
     "health_check_type", "health_check_timeout"}
RestageFields == {"buildpack", "stack", "environment"}
TieredFields == InPlaceFields \cup RestartFields \cup RestageFields

TierRank(t) ==
    IF t = "Restage" THEN 3 ELSE IF t = "Restart" THEN 2
    ELSE IF t = "InPlaceUpdate" THEN 1 ELSE 0

\* the maximum tier over a set of changed fields
MaxTier(F) ==
    IF F \cap RestageFields # {} THEN "Restage"
    ELSE IF F \cap RestartFields # {} THEN "Restart"
    ELSE IF F \cap InPlaceFields # {} THEN "InPlaceUpdate" ELSE "None"

\* the tier the three flags of resourceAppUpdate stand for
FlagTier(update, restart, restage) ==
    IF restage THEN "Restage" ELSE IF restart THEN "Restart"
    ELSE IF update THEN "InPlaceUpdate" ELSE "None"

\* resourceAppUpdate has classified the change
Classified == su.mode = "plan" /\ su.chosen \in {"failed", "bluegreen", "standard"}

\* C21: the classification of an update is the maximum tier over the
\* changed fields (name, space, instances, enable_ssh: InPlaceUpdate; ports,
\* memory, disk_quota, command, health-check fields: Restart; buildpack,
\* stack, environment: Restage); a change only in environment or buildpack
\* gives at least Restage, a change only in instances gives InPlaceUpdate
\* with neither restart nor restage flagged
C21_TierIsMaximum ==
    Classified =>
      LET F == su.fields \cap TieredFields
      IN /\ F # {} =>
              FlagTier(su.update, su.restart, su.restage) = MaxTier(F)
         /\ su.restart = (F \cap RestartFields # {})
         /\ su.restage = (F \cap RestageFields # {})
         /\ su.fields \in {{"environment"}, {"buildpack"}} =>
              TierRank(FlagTier(su.update, su.restart, su.restage))
                 >= TierRank("Restage")
         /\ su.fields = {"instances"} =>
              su.update /\ ~su.restart /\ ~su.restage

\* a change of a Restart field together with a Restage field
C21_Witness ==
    /\ Classified
    /\ su.fields \cap RestartFields # {} /\ su.fields \cap RestageFields # {}
    /\ su.restart /\ su.restage

\* the source kind an attribute belongs to
SourceKind(attr) ==
    IF attr \in {"docker_image", "docker_credentials"} THEN "docker" ELSE attr

\* the source kinds whose attributes changed
ChangedKinds(F) ==
    {SourceKind(attr) : attr \in F \cap {"url", "git", "github_release",
                                         "docker_image", "docker_credentials"}}

\* the source kinds are mutually exclusive, so attributes of two kinds change
\* together exactly when the application switches from one kind to the other
KindSwitch(F) == Cardinality(ChangedKinds(F)) >= 2

\* the plan is applied to the existing application
AppliedInPlace ==
    \/ pc = "p_update"
    \/ su.mode = "plan" /\ su.chosen \in {"failed", "bluegreen", "standard"}

\* C23 as stated: any change of source kind (url, git, github_release,
\* docker image) forces full replacement and is never applied in place
C23_AnyKindSwitchReplaces ==
    (su.mode = "plan" /\ KindSwitch(su.fields)) =>
        su.forceNew # {} /\ ~AppliedInPlace

\* C23: a change of source kind to or from a docker image forces full
\* replacement and is never applied in place
C23_DockerSwitchReplaces ==
    (su.mode = "plan" /\ KindSwitch(su.fields)
       /\ "docker" \in ChangedKinds(su.fields)) =>
        /\ su.forceNew # {}
        /\ ~AppliedInPlace
        /\ su.forceNew \cap {"docker_image", "docker_credentials"} # {}

\* an application switched from a docker image to a url has been replaced
C23_Witness ==
    /\ su.mode = "plan" /\ su.fields = {"docker_image", "url"}
    /\ su.chosen = "replace"

\* resourceAppUpdate has dispatched the update to one of its two paths
Dispatched == su.mode = "plan" /\ su.chosen \in {"bluegreen", "standard"}

\* the change tier is Restart or Restage
DisruptiveTier(F) == MaxTier(F \cap TieredFields) \in {"Restart", "Restage"}

\* C26 as stated: the blue-green update runs only if blue-green is enabled;
\* with it enabled it is chosen whenever the tier is Restart or Restage or a
\* binary-source, route or service-binding attribute changed, and the
\* standard update otherwise
C26_RouteChangeRollsOut ==
    Dispatched =>
      (su.chosen = "bluegreen") =
         (su.enabled
            /\ (\/ DisruptiveTier(su.fields)
                \/ su.fields \cap {"url", "git", "github_release",
                                   "add_content", "route", "routes",
                                   "service_binding"} # {}))

\* C26: the blue-green update runs only if blue-green is enabled; with it
\* enabled it is chosen whenever the tier is Restart or Restage or one of
\* url, git, github_release, add_content or service_binding changed, and the
\* standard update otherwise (a change only in name, instances or routes)
C26_DispatchRule ==
    Dispatched =>
      (su.chosen = "bluegreen") =
         (su.enabled
            /\ (\/ DisruptiveTier(su.fields)
                \/ su.fields \cap {"url", "git", "github_release",
                                   "add_content", "service_binding"} # {}))

\* blue-green is enabled and only the binary source changed
C26_Witness ==
    /\ Dispatched /\ su.enabled /\ su.fields = {"url"}
    /\ su.chosen = "bluegreen"

\* ------------------------------------------------------- delete claims
\* resourceAppDelete receives this answer to the remote delete call it has
\* just issued
DeleteAnswered(codes) ==
    /\ su.mode = "delete"
    /\ Len(log') = Len(log) + 1
    /\ log'[Len(log')].code \in codes

\* the call resourceAppDelete has just issued
LastDeleteCall == log'[Len(log')].call

\* C24: in resource delete a 404 from any remote delete call
\* (DeleteServiceBinding, DeleteRouteMapping, DeleteApp) is swallowed where
\* it occurs: the remaining steps still run and delete returns no error
C24_NotFoundSwallowed ==
    [][DeleteAnswered({"404"}) =>
          /\ result' = Nil
          /\ pc' = "idle" => LastDeleteCall = "DeleteApp"]_vars

\* C25 as stated: in resource delete a non-404 failure of any remote delete
\* call aborts the delete and is returned, and the resource is kept
C25_AnyFailureAborts ==
    [][DeleteAnswered({"error"}) =>
          pc' = "idle" /\ result' # Nil /\ id' = id]_vars

\* C25: in resource delete a non-404 failure of DeleteServiceBinding or
\* DeleteRouteMapping aborts the delete and is returned as it is, and the
\* resource is kept; a failure of DeleteApp is only logged and delete
\* returns no error
C25_UnbindFailureAborts ==
    [][DeleteAnswered({"error"}) =>
          IF LastDeleteCall = "DeleteApp"
          THEN pc' = "idle" /\ result' = Nil
          ELSE /\ pc' = "idle" /\ id' = id
               /\ result' = IF LastDeleteCall = "DeleteServiceBinding"
                            THEN "ErrDeleteBinding" ELSE "ErrUnmapping"]_vars

\* delete has returned the error of a failed DeleteServiceBinding
C25_Witness ==
    /\ su.mode = "delete" /\ pc = "idle" /\ id # NoId
    /\ result = "ErrDeleteBinding"
    /\ log # <<>> /\ log[Len(log)].code = "error"

\* ------------------------------------------------ remediation of a tier
\* resourceAppStandardUpdate reads the application back and settles its
\* restage and restart flags
ReadStep == su.mode = "std" /\ pc = "s_read" /\ pc' = "s_restage"

\* calls of this run of the update
RunCalls == {i \in DOMAIN log : i > su.mark}

\* RestageApp was issued and succeeded
Restaged == \E i \in RunCalls : log[i].call = "RestageApp" /\ log[i].ok

\* the application was restarted: StopApp, then StartApp
Restarted ==
    \E i \in RunCalls :
       /\ log[i].call = "StopApp" /\ log[i].ok
       /\ i + 1 \in RunCalls
       /\ log[i + 1].call = "StartApp" /\ log[i + 1].ok

\* C22 as stated: in every successful standard update a changed Restage
\* field has RestageApp issued, and a change whose highest tier is Restart
\* has the application restarted (StopApp then StartApp) or restaged
C22_TierForcesRemediation ==
    /\ [][ReadStep /\ su.restage => su'.restage]_vars
    /\ [][ReadStep /\ su.restart => su'.restart]_vars
    /\ [](StdDone => /\ su.restage => Restaged
                     /\ su.restart /\ ~su.restage => Restarted)

\* C22: in every successful standard update a changed Restage field has
\* RestageApp issued unless the package state read back is PENDING, and
\* then the change is answered as a Restart; a Restart restarts the
\* application (StopApp then StartApp) unless it is configured as stopped
C22_RemediationUnlessPendingOrStopped ==
    /\ [][ReadStep /\ su.restage =>
            IF su'.packageState = "PENDING"
            THEN ~su'.restage /\ su'.restart
            ELSE su'.restage]_vars
    /\ [][ReadStep /\ su.restart => su'.restart]_vars
    /\ [](StdDone => /\ su.restage => Restaged
                     /\ su.restart /\ ~su.restage /\ ~su.stopped => Restarted)

\* a Restage change met a PENDING package: the application was restarted
\* and RestageApp was not issued
C22_Witness ==
    /\ StdDone /\ su.pass = 1
    /\ ~su.binaryUpdated /\ su.packageState = "PENDING"
    /\ Restarted /\ ~Restaged

\* ------------------------------------------ reconciliation before start
\* a call that creates or deletes a service binding or a route mapping
IsReconcileCall(e) ==
    e.call \in {"CreateServiceBinding", "DeleteServiceBinding",
                "CreateRouteMapping", "DeleteRouteMapping"}

\* a call that starts, stops or restages the application
IsStartCall(e) ==
    e.call \in {"StartApp", "StartDockerApp", "StopApp", "RestageApp"}

\* C27: in create and in standard update every service-binding and
\* route-mapping create/delete call of the operation is issued before the
\* first StartApp, StartDockerApp, StopApp or RestageApp call of it
C27_ReconcileBeforeStart ==
    (op = "create" \/ su.mode = "std") =>
       \A i, j \in DOMAIN log :
          IsReconcileCall(log[i]) /\ IsStartCall(log[j]) => i < j

\* a standard update that mapped a route and then restaged
C27_Witness ==
    /\ StdDone
    /\ \E i \in DOMAIN log : log[i].call = "CreateRouteMapping" /\ log[i].ok
    /\ \E j \in DOMAIN log : log[j].call = "RestageApp" /\ log[j].ok

\* a create that bound a service and then started the application
C27_CreateStarted ==
    /\ op = "create" /\ pc = "idle" /\ result = Nil
    /\ \E i \in DOMAIN log : log[i].call = "CreateServiceBinding"
    /\ \E j \in DOMAIN log : log[j].call = "StartApp" /\ log[j].ok

\* ------------------------------------------------- the blue-green rollout
\* the main flow of the update leaves position p
StepFrom(p) == op = "update" /\ pc = p /\ pc' # p

\* the last call issued is c and it succeeded
LastCallOk(c) ==
    log # <<>> /\ log[Len(log)].call = c /\ log[Len(log)].ok

\* the positions of the rollout after the venerable was recorded as deposed
AfterRecord ==
    {"bg_rebindDefault", "bg_rebindLive", "bg_loop", "bg_up", "bg_down",
     "bg_delete"}

\* the venerable is recorded as deposed in this step
Recording == op = "update" /\ ~bg.recorded /\ bg'.recorded

\* no step of resourceAppCreateCfApp failed
ReplacementCreated ==
    /\ stepErrs = {}
    /\ \E i \in DOMAIN log :
         log[i].call = "CreateApp" /\ log[i].app = appID /\ log[i].ok

\* C28: the rollout takes its steps in the order read venerable, rename
\* venerable, create replacement, record deposed, rebind routes, scaling
\* exchange, delete venerable; a step starts only after the one before it
\* succeeded, and after the first failing step the rollout returns an error
\* and takes no later step
C28_FixedOrder ==
    /\ [][StepFrom("bg_rename") => LastCallOk("ReadApp")]_vars
    /\ [][StepFrom("bg_create") => LastCallOk("UpdateApp")]_vars
    /\ [][Recording => ReplacementCreated]_vars
    /\ [][(\E p \in AfterRecord : StepFrom(p)) =>
             bg.recorded /\ stepErrs = {} /\ AllOk]_vars
    /\ [](UpdateDone /\ bg.ven # NoId /\ ~AllOk => result # Nil)

\* the instance count of application a grows in this step of an update
Grows(a) == op = "update" /\ apps'[a].instances > apps[a].instances

\* C29: in a blue-green rollout the replacement is created with exactly one
\* instance whatever the desired count, and its instance count is raised
\* above one only by the scaling exchange, one at a time and never beyond
\* the desired count
C29_ReplacementStartsAtOne ==
    /\ [][\A a \in AppIds :
            Grows(a) =>
               \/ /\ pc = "c_createApp" /\ ~apps[a].exists
                  /\ apps'[a].instances = 1
               \/ /\ pc = "bg_up" /\ a = id /\ a # bg.ven
                  /\ apps'[a].instances = apps[a].instances + 1
                  /\ apps'[a].instances <= cfg.instances]_vars
    /\ [](op = "update" =>
            \A i \in DOMAIN log : log[i].call = "CreateApp" => log[i].n = 1)

\* a rollout to three instances: the replacement was created with one and
\* has three at the end
C29_Witness ==
    /\ UpdateDone /\ result = Nil /\ bg.recorded
    /\ cfg.instances = 3 /\ apps[id].exists /\ apps[id].instances = 3
    /\ \E i \in DOMAIN log :
         log[i].call = "CreateApp" /\ log[i].app = id /\ log[i].n = 1

\* the rollout has finished rebinding the routes: the scaling exchange is
\* running, or the update has returned without error
Rebound ==
    /\ op = "update" /\ bg.recorded
    /\ \/ pc \in {"bg_loop", "bg_up", "bg_down", "bg_delete"}
       \/ UpdateDone /\ result = Nil

\* C30: in a blue-green rollout whose route block names a default_route or a
\* live_route, each of them is mapped to the replacement application before
\* the scaling exchange starts, and a successful rollout ends with them
\* mapped to the replacement
C30_RoutesReboundToReplacement ==
    Rebound =>
       \A slot \in {"default_route", "live_route"} :
          RouteId(cfg.route, slot) # "" =>
             [route |-> RouteId(cfg.route, slot), app |-> id] \in mappings

\* ------------------------------------------------ the scaling exchange
\* the rollout goes on: it issues a call or decides on the next iteration
RolloutGoesOn ==
    /\ op = "update" /\ pc \in {"bg_down", "bg_loop", "bg_up", "bg_delete"}
    /\ pc' # pc
    /\ ~(pc' = "idle" /\ result' # Nil /\ log' = log)

\* C31: in the scaling exchange, when the replacement is not stopped the
\* rollout waits after each scale-up for it to report started; if that wait
\* fails or times out the rollout stops and returns an error, and what was
\* applied stays in place
C31_WaitFailureStops ==
    /\ [][bg.waitFailed => ~RolloutGoesOn]_vars
    /\ [](UpdateDone /\ bg.waitFailed => result # Nil)

\* --------------------------------------------------- route conflicts
\* a remote call that changes something upstream
IsMutatingCall(e) ==
    e.call \in {"CreateApp", "UpdateApp", "CreateServiceBinding",
                "DeleteServiceBinding", "CreateRouteMapping",
                "DeleteRouteMapping"}

\* the operation has returned the error of a route that is mapped to another
\* application
ConflictReturned == pc = "idle" /\ result = "ErrRouteMapped"

\* C32 as stated: when a desired route is mapped to another application the
\* operation (create, update) fails with the conflict error before it has
\* issued any mutating remote call
C32_ConflictBeforeAnyMutation ==
    (ConflictReturned /\ op \in {"create", "update"}) =>
        \A i \in DOMAIN log : ~IsMutatingCall(log[i])

\* C32: when a desired route is mapped to another application, create fails
\* with the conflict error before it has issued any mutating remote call
C32_CreateConflictPreflight ==
    (ConflictReturned /\ op = "create") =>
        /\ \A i \in DOMAIN log : ~IsMutatingCall(log[i])
        /\ appID = NoId /\ id = NoId

\* a create that was refused because of a route conflict
C32_Witness ==
    /\ ConflictReturned /\ op = "create"
    /\ \E s \in SlotSet : cfg.route[s] # ""

\* ------------------------------------- the deposed map and the tracked id
\* the state the SDK hands back when the standard update has returned
StdState == State(id, deposed, partial, partialMap, state)

\* C33: a standard update never adds or removes a deposed entry: while it
\* runs and after it has returned, with or without an error, the deposed map
\* is the one of the prior persisted state, whatever (empty) value the
\* configuration holds for it
C33_StandardKeepsDeposed ==
    su.mode = "std" =>
        /\ deposed = state.deposed
        /\ pc = "idle" => StdState.deposed = state.deposed

\* a standard update of a resource with a deposed application has succeeded
C33_Witness ==
    /\ StdDone /\ state.deposed = {2}
    /\ StdState.deposed = {2}
    /\ \E i \in DOMAIN log : log[i].call = "CreateServiceBinding"

\* ------------------------------------------------ the upload goroutine
\* C34: in every execution of create for a source-based application, early
\* returns after a failed binding or mapping call included, the upload
\* goroutine eventually finishes: it is never left blocked for good on
\* `upload <- err`
C34_UploadTaskFinishes == (gpc = "g_upload") ~> (gpc = "g_done")

\* ------------------------------------------- the shared error of create
\* C35: the outcome of create does not depend on the interleaving of the
\* upload goroutine and the main flow: in no interleaving does a create whose
\* service binding or route mapping call failed return success, or return
\* without the cleanup DeleteApp of the created application
C35_FailureSurvivesInterleaving ==
    (/\ CreateCfAppReturned /\ appID # NoId
     /\ stepErrs \cap {"ErrBinding", "ErrMapping"} # {}) =>
        /\ ret # Nil
        /\ Issued("DeleteApp", appID)

\* ------------------------------------- the stage route of a replacement
\* the create of the rollout's replacement went past CreateApp and found no
\* stage_route
NoStageRouteHit == op = "update" /\ "ErrNoStageRoute" \in stepErrs

\* C36: a blue-green rollout without a stage_route fails in the creation of
\* the replacement, after CreateApp, with 'stage_route is not defined': the
\* rollout returns that error, the created replacement was deleted, the
\* venerable application stays renamed and the deposed map is unchanged.
\* With a stage_route the creation maps the replacement to the stage route
\* and to no other route
C36_StageRouteOfReplacement ==
    /\ (UpdateDone /\ NoStageRouteHit) =>
          /\ result = "ErrNoStageRoute"
          /\ \E i \in DOMAIN log :
                log[i].call = "DeleteApp" /\ log[i].app = appID /\ log[i].ok
          /\ apps[appID] = NoApp
          /\ apps[bg.ven] # NoApp /\ apps[bg.ven].renamed
          /\ deposed = bg.before /\ state.deposed = bg.before
    /\ (op = "update" /\ pc \in {"c_join", "c_start", "c_read"}) =>
          {m.route : m \in {x \in mappings : x.app = appID}}
              = {RouteId(cfg.route, "stage_route")}

\* ------------------------------------------- the scaling exchange ends
\* the rollout is in its scaling loop
InExchange == op = "update" /\ pc \in {"bg_loop", "bg_up", "bg_down"}

\* the larger and the smaller of two numbers
Larger(a, b) == IF a > b THEN a ELSE b
Smaller(a, b) == IF a < b THEN a ELSE b

\* the limits of the exchange towards N instances from a venerable with V
ExchangeBounded ==
    (bg.recorded /\ (InExchange \/ pc = "bg_delete" \/ UpdateDone)) =>
        /\ bg.iter <= Larger(Larger(cfg.instances - 1, bg.V - 1), 0)
        /\ Len(Ups) <= Larger(cfg.instances - 1, 0)
        /\ Len(Downs) <= Larger(bg.V - 1, 0)
        /\ bg.newInst \in 1..Larger(cfg.instances, 1)
        /\ \A k \in DOMAIN Ups : Ups[k].n \in 1..Larger(cfg.instances, 1)
        /\ bg.venInst >= Smaller(bg.V, 1)
        /\ \A k \in DOMAIN Downs : Downs[k].n >= Smaller(bg.V, 1)

\* C37: the scaling exchange of a rollout always ends: it takes at most
\* max(N-1, V-1, 0) iterations, issues at most N-1 scale-up and V-1
\* scale-down UpdateApp calls, keeps the replacement's count within
\* 1..max(N,1) and the venerable's count at or above min(V,1), and a rollout
\* in the loop leaves it
C37_ExchangeTerminates ==
    /\ []ExchangeBounded
    /\ InExchange ~> ~InExchange

\* an exchange of the maximal length, ended
C37_Witness ==
    /\ UpdateDone /\ bg.recorded /\ result = Nil
    /\ bg.iter = 3 /\ Len(Ups) = 3 /\ Len(Downs) = 1

\* ------------------------------------------------ the point of no return
\* the applications of the rollout: the venerable and the replacement
RolloutApps == {bg.ven, appID}

\* C38: once the replacement was created and recorded, the id of the
\* resource is the replacement's id in every later state of the update, the
\* state handed back at every exit included; and while the venerable exists
\* upstream, every application of the rollout that exists upstream is the
\* resource's id or is named by the deposed map, in the resource data and in
\* the state handed back
C38_PointOfNoReturn ==
    (op = "update" /\ bg.recorded) =>
        /\ id = appID
        /\ UpdateDone => state.id = appID
        /\ apps[bg.ven].exists =>
              \A a \in RolloutApps :
                  apps[a].exists =>
                      /\ a = id \/ a \in deposed
                      /\ UpdateDone => (a = state.id \/ a \in state.deposed)

====
